---------------------------- MODULE Spec2Model ----------------------------
(***************************************************************************)
(* Flow DSL: the zod type model (types.ts) and the two-phase FlowValidator *)
(* (validator.ts).  A document is validated structurally by                *)
(* FlowSchema.safeParse and, when that succeeds, semantically by the rule  *)
(* families validateMetadata, validateTriggers, validateSteps,             *)
(* validateStepReferences and validateObservability.                       *)
(*                                                                         *)
(* Representation of JavaScript values:                                    *)
(*   - an optional value is a sequence of length 0 (undefined / key        *)
(*     absent) or 1 (present): None, Some(v);                              *)
(*   - a number is an integer count of tenths, written Dec(w, t) for w.t,  *)
(*     so that 1.5 and 0.1 are values of the model;                        *)
(*   - identifiers and names are TLA+ strings; strings the code inspects   *)
(*     character by character (cron, jdbc urls, expressions) are sequences *)
(*     of one-character strings;                                           *)
(*   - an ISO datetime string is the integer instant new Date() gives it.  *)
(***************************************************************************)
EXTENDS Integers, Sequences, FiniteSets, TLC

VARIABLES
    validator, \* which FlowValidator instance is in use: the n-th one constructed
    doc,       \* the value handed to validate (the caller's document)
    errors,    \* FlowValidator.errors
    warnings,  \* FlowValidator.warnings
    result,    \* the ValidationResult returned by the last validate call
    pc,        \* "ready": constructed, validate not yet called; "done": validate
               \* returned; "threw": validate ended with an exception
    held,      \* what the caller holds: per finished call, the instance called,
               \* the document and the ValidationResult it got back, in call order
    text,      \* the text handed to a parser entry point
    outcome,   \* how the parser entry point ended: what it returned or threw
    report     \* the text getValidationErrors made of the last result

vars == <<validator, doc, errors, warnings, result, pc, held, text, outcome, report>>

---------------------------------------------------------------------------
(* JavaScript values *)

None == <<>>
Some(v) == <<v>>
IsSome(o) == Len(o) = 1
Get(o) == o[1]

Dec(whole, tenths) == whole * 10 + tenths

\* JavaScript truthiness of a string / a number ("" and 0 are falsy).
TruthyStr(s) == s # ""
TruthyChars(cs) == Len(cs) > 0
TruthyNum(n) == n # 0
\* truthiness of an optional string / number (undefined is falsy)
TruthyOptStr(o) == IsSome(o) /\ TruthyStr(Get(o))
TruthyOptChars(o) == IsSome(o) /\ TruthyChars(Get(o))
TruthyOptNum(o) == IsSome(o) /\ TruthyNum(Get(o))

RECURSIVE Chars(_)
\* the characters of a character sequence as one string (template literals)
Chars(cs) == IF cs = <<>> THEN "" ELSE Head(cs) \o Chars(Tail(cs))

\* String.prototype.startsWith on character sequences
StartsWith(cs, prefix) ==
    /\ Len(cs) >= Len(prefix)
    /\ SubSeq(cs, 1, Len(prefix)) = prefix

IsBlank(c) == c \in {" ", "\t"}

RECURSIVE TrimLeft(_)
TrimLeft(cs) == IF cs # <<>> /\ IsBlank(Head(cs)) THEN TrimLeft(Tail(cs)) ELSE cs

RECURSIVE TrimRight(_)
TrimRight(cs) ==
    IF cs # <<>> /\ IsBlank(cs[Len(cs)]) THEN TrimRight(SubSeq(cs, 1, Len(cs) - 1)) ELSE cs

\* String.prototype.trim
Trim(cs) == TrimRight(TrimLeft(cs))

RECURSIVE CountChar(_, _)
CountChar(cs, c) ==
    IF cs = <<>> THEN 0
    ELSE (IF Head(cs) = c THEN 1 ELSE 0) + CountChar(Tail(cs), c)

\* cron.split(' ').length: one more than the number of single spaces
SplitLength(cs, sep) == CountChar(cs, sep) + 1

\* Array.prototype.forEach with the validator's accumulator threaded through:
\* Body(acc, element, index) with the 0-based index of JavaScript.
RECURSIVE ForEachFrom(_, _, _, _)
ForEachFrom(Body(_, _, _), acc, seq, i) ==
    IF i > Len(seq) THEN acc
    ELSE ForEachFrom(Body, Body(acc, seq[i], i - 1), seq, i + 1)

ForEach(Body(_, _, _), acc, seq) == ForEachFrom(Body, acc, seq, 1)

---------------------------------------------------------------------------
(* Findings and the validator's two accumulators *)

ValidationError(path, message, code) ==
    [path |-> path, message |-> message, code |-> code, severity |-> "error"]

ValidationWarning(path, message, code) ==
    [path |-> path, message |-> message, code |-> code, severity |-> "warning"]

\* this.errors.push(...) / this.warnings.push(...) on the pair of accumulators
PushError(acc, path, message, code) ==
    [acc EXCEPT !.errors = Append(@, ValidationError(path, message, code))]

PushWarning(acc, path, message, code) ==
    [acc EXCEPT !.warnings = Append(@, ValidationWarning(path, message, code))]

\* validate without the two assignments that empty the accumulators: the
\* call pushes onto whatever the instance holds
EmptyAcc_NotReset == [errors |-> errors, warnings |-> warnings]

\* this.errors = []; this.warnings = []: the accumulators a call starts from
EmptyAcc == [errors |-> <<>>, warnings |-> <<>>]

\* `${path}[${index}]`
Indexed(path, index) == path \o "[" \o ToString(index) \o "]"

---------------------------------------------------------------------------
(* zod: issues, paths and the primitive checks the schemas of types.ts use *)

\* an element of ZodIssue.path: an object key or an array index
Key(k) == [isIndex |-> FALSE, key |-> k, index |-> 0]
Idx(i) == [isIndex |-> TRUE, key |-> "", index |-> i]

ZodIssue(path, message) == [path |-> path, message |-> message]

\* the outcome of parsing one value: the typed value and the issues found
Parsed(data, issues) == [data |-> data, issues |-> issues]

OrDefault(o, d) == IF IsSome(o) THEN Get(o) ELSE d

\* a required key: absent gives invalid_type "Required"
Required(o, path, k) ==
    IF IsSome(o) THEN <<>> ELSE <<ZodIssue(Append(path, Key(k)), "Required")>>

\* z.enum([...]) on a required key
RequiredEnum(o, allowed, path, k) ==
    IF ~IsSome(o) THEN <<ZodIssue(Append(path, Key(k)), "Required")>>
    ELSE IF Get(o) \notin allowed
         THEN <<ZodIssue(Append(path, Key(k)), "Invalid enum value")>>
         ELSE <<>>

\* z.enum([...]).default(...) / .optional(): only a supplied value is checked
OptionalEnum(o, allowed, path, k) ==
    IF IsSome(o) /\ Get(o) \notin allowed
    THEN <<ZodIssue(Append(path, Key(k)), "Invalid enum value")>>
    ELSE <<>>

\* z.number().min(lo).max(hi) on an optional or defaulted key: zod runs every
\* check of the number, min before max
MinMax(o, lo, hi, loText, hiText, path, k) ==
    IF ~IsSome(o) THEN <<>>
    ELSE (IF Get(o) < lo
          THEN <<ZodIssue(Append(path, Key(k)),
                          "Number must be greater than or equal to " \o loText)>>
          ELSE <<>>)
         \o
         (IF Get(o) > hi
          THEN <<ZodIssue(Append(path, Key(k)),
                          "Number must be less than or equal to " \o hiText)>>
          ELSE <<>>)

\* z.array(Element) on a supplied list: every element is parsed, at path [.., i]
ParseArray(ParseElement(_, _), list, path) ==
    ForEach(LAMBDA acc, e, i :
                LET p == ParseElement(e, Append(path, Idx(i)))
                IN  Parsed(Append(acc.data, p.data), acc.issues \o p.issues),
            Parsed(<<>>, <<>>), list)

\* z.discriminatedUnion('type', ...): a missing or unknown tag is one issue
\* at [.., "type"] and nothing else of the value is looked at
BadDiscriminator(raw, tags) == ~IsSome(raw.type) \/ Get(raw.type) \notin tags

DiscriminatorIssue(path) ==
    <<ZodIssue(Append(path, Key("type")), "Invalid discriminator value")>>

\* z.string().email(), on the addresses the model draws from
ValidEmails == {"owner@example.com"}

---------------------------------------------------------------------------
(* types.ts: metadata *)

ParseCompliance(raw, path) ==
    Parsed([gdpr |-> OrDefault(raw.gdpr, FALSE),
            hipaa |-> OrDefault(raw.hipaa, FALSE),
            dataRetention |-> raw.dataRetention],
           <<>>)

ParseRBAC(raw, path) ==
    Parsed([roles |-> OrDefault(raw.roles, <<>>)], <<>>)

ParseOwner(raw, path) ==
    Parsed([name |-> OrDefault(raw.name, ""), email |-> OrDefault(raw.email, "")],
           Required(raw.name, path, "name")
           \o (IF ~IsSome(raw.email)
               THEN <<ZodIssue(Append(path, Key("email")), "Required")>>
               ELSE IF Get(raw.email) \notin ValidEmails
                    THEN <<ZodIssue(Append(path, Key("email")), "Invalid email")>>
                    ELSE <<>>))

ParseMetadata(raw, path) ==
    LET owners == IF IsSome(raw.owners)
                  THEN ParseArray(ParseOwner, Get(raw.owners), Append(path, Key("owners")))
                  ELSE Parsed(<<>>, <<>>)
        compliance == IF IsSome(raw.compliance)
                      THEN LET p == ParseCompliance(Get(raw.compliance),
                                                    Append(path, Key("compliance")))
                           IN  Parsed(Some(p.data), p.issues)
                      ELSE Parsed(None, <<>>)
        rbac == IF IsSome(raw.rbac)
                THEN LET p == ParseRBAC(Get(raw.rbac), Append(path, Key("rbac")))
                     IN  Parsed(Some(p.data), p.issues)
                ELSE Parsed(None, <<>>)
    IN  Parsed([name |-> OrDefault(raw.name, ""),
                version |-> OrDefault(raw.version, "1.0.0"),
                owners |-> owners.data,
                compliance |-> compliance.data,
                rbac |-> rbac.data],
               Required(raw.name, path, "name")
               \o owners.issues \o compliance.issues \o rbac.issues)

---------------------------------------------------------------------------
(* types.ts: triggers *)

TriggerTags == {"http", "schedule", "kafka", "mqtt", "sftp", "jdbc", "file-watch"}

AuthTypes == {"none", "basic", "bearer", "api-key"}

FileEvents == {"create", "modify", "delete"}

ParseHttpTrigger(raw, path) ==
    LET auth == IF IsSome(raw.auth)
                THEN LET a == Get(raw.auth)
                     IN  Parsed(Some([type |-> OrDefault(a.type, "none"),
                                      config |-> a.config]),
                                OptionalEnum(a.type, AuthTypes,
                                             Append(path, Key("auth")), "type"))
                ELSE Parsed(None, <<>>)
        rateLimit == IF IsSome(raw.rateLimit)
                     THEN LET r == Get(raw.rateLimit)
                              p == Append(path, Key("rateLimit"))
                          IN  Parsed(Some([requests |-> OrDefault(r.requests, 0),
                                           window |-> OrDefault(r.window, 0)]),
                                     Required(r.requests, p, "requests")
                                     \o Required(r.window, p, "window"))
                     ELSE Parsed(None, <<>>)
    IN  Parsed([type |-> "http",
                path |-> OrDefault(raw.path, ""),
                auth |-> auth.data,
                rateLimit |-> rateLimit.data],
               Required(raw.path, path, "path") \o auth.issues \o rateLimit.issues)

ParseScheduleTrigger(raw, path) ==
    Parsed([type |-> "schedule",
            cron |-> OrDefault(raw.cron, <<>>),
            startDate |-> raw.startDate,
            endDate |-> raw.endDate],
           Required(raw.cron, path, "cron"))

ParseKafkaTrigger(raw, path) ==
    Parsed([type |-> "kafka",
            topic |-> OrDefault(raw.topic, ""),
            groupId |-> OrDefault(raw.groupId, ""),
            bootstrapServers |-> OrDefault(raw.bootstrapServers, <<>>)],
           Required(raw.topic, path, "topic")
           \o Required(raw.groupId, path, "groupId")
           \o Required(raw.bootstrapServers, path, "bootstrapServers"))

\* MqttTriggerSchema with a default for qos that its own bounds reject
\* (z.number().min(0).max(2).default(3))
ParseMqttTrigger_DefaultOutOfRange(raw, path) ==
    Parsed([type |-> "mqtt",
            topic |-> OrDefault(raw.topic, ""),
            qos |-> OrDefault(raw.qos, Dec(3, 0)),
            broker |-> OrDefault(raw.broker, ""),
            clientId |-> OrDefault(raw.clientId, "")],
           Required(raw.topic, path, "topic")
           \o MinMax(raw.qos, Dec(0, 0), Dec(2, 0), "0", "2", path, "qos")
           \o Required(raw.broker, path, "broker")
           \o Required(raw.clientId, path, "clientId"))

ParseMqttTrigger(raw, path) ==
    Parsed([type |-> "mqtt",
            topic |-> OrDefault(raw.topic, ""),
            qos |-> OrDefault(raw.qos, Dec(1, 0)),
            broker |-> OrDefault(raw.broker, ""),
            clientId |-> OrDefault(raw.clientId, "")],
           Required(raw.topic, path, "topic")
           \o MinMax(raw.qos, Dec(0, 0), Dec(2, 0), "0", "2", path, "qos")
           \o Required(raw.broker, path, "broker")
           \o Required(raw.clientId, path, "clientId"))

ParseSftpTrigger(raw, path) ==
    Parsed([type |-> "sftp",
            host |-> OrDefault(raw.host, ""),
            username |-> OrDefault(raw.username, ""),
            password |-> raw.password,
            privateKey |-> raw.privateKey,
            path |-> OrDefault(raw.path, "")],
           Required(raw.host, path, "host")
           \o Required(raw.username, path, "username")
           \o Required(raw.path, path, "path"))

ParseJdbcTrigger(raw, path) ==
    Parsed([type |-> "jdbc",
            url |-> OrDefault(raw.url, <<>>),
            username |-> OrDefault(raw.username, ""),
            password |-> OrDefault(raw.password, ""),
            query |-> OrDefault(raw.query, ""),
            driver |-> OrDefault(raw.driver, "")],
           Required(raw.url, path, "url")
           \o Required(raw.username, path, "username")
           \o Required(raw.password, path, "password")
           \o Required(raw.query, path, "query")
           \o Required(raw.driver, path, "driver"))

ParseFileWatchTrigger(raw, path) ==
    LET eventIssues ==
            IF IsSome(raw.events)
            THEN ForEach(LAMBDA acc, e, i :
                             IF e \in FileEvents THEN acc
                             ELSE Append(acc, ZodIssue(path \o <<Key("events"), Idx(i)>>,
                                                       "Invalid enum value")),
                         <<>>, Get(raw.events))
            ELSE <<>>
    IN  Parsed([type |-> "file-watch",
                path |-> OrDefault(raw.path, ""),
                events |-> OrDefault(raw.events, <<"create">>)],
               Required(raw.path, path, "path") \o eventIssues)

ParseTrigger(raw, path) ==
    IF BadDiscriminator(raw, TriggerTags) THEN Parsed(raw, DiscriminatorIssue(path))
    ELSE CASE Get(raw.type) = "http" -> ParseHttpTrigger(raw, path)
           [] Get(raw.type) = "schedule" -> ParseScheduleTrigger(raw, path)
           [] Get(raw.type) = "kafka" -> ParseKafkaTrigger(raw, path)
           [] Get(raw.type) = "mqtt" -> ParseMqttTrigger(raw, path)
           [] Get(raw.type) = "sftp" -> ParseSftpTrigger(raw, path)
           [] Get(raw.type) = "jdbc" -> ParseJdbcTrigger(raw, path)
           [] Get(raw.type) = "file-watch" -> ParseFileWatchTrigger(raw, path)
---------------------------------------------------------------------------
(* types.ts: steps *)

StepTags == {"connector", "map", "script", "enrich", "branch", "retry", "dlq",
             "throttle", "checkpoint", "circuitBreaker"}

ScriptLanguages == {"javascript", "python"}

ParseConnectorStep(raw, path) ==
    Parsed([type |-> "connector",
            connectorRef |-> OrDefault(raw.connectorRef, ""),
            operation |-> OrDefault(raw.operation, ""),
            timeout |-> raw.timeout],
           Required(raw.connectorRef, path, "connectorRef")
           \o Required(raw.operation, path, "operation"))

ParseMapStep(raw, path) ==
    Parsed([type |-> "map", expression |-> OrDefault(raw.expression, <<>>)],
           Required(raw.expression, path, "expression"))

ParseScriptStep(raw, path) ==
    Parsed([type |-> "script",
            language |-> OrDefault(raw.language, ""),
            code |-> OrDefault(raw.code, <<>>),
            timeout |-> OrDefault(raw.timeout, Dec(30, 0))],
           RequiredEnum(raw.language, ScriptLanguages, path, "language")
           \o Required(raw.code, path, "code"))

ParseEnrichStep(raw, path) ==
    Parsed([type |-> "enrich",
            source |-> OrDefault(raw.source, ""),
            key |-> OrDefault(raw.key, ""),
            timeout |-> OrDefault(raw.timeout, Dec(10, 0))],
           Required(raw.source, path, "source") \o Required(raw.key, path, "key"))

ParseBranchCondition(raw, path) ==
    Parsed([condition |-> OrDefault(raw.condition, ""),
            nextStep |-> OrDefault(raw.nextStep, "")],
           Required(raw.condition, path, "condition")
           \o Required(raw.nextStep, path, "nextStep"))

ParseBranchStep(raw, path) ==
    LET conditions == IF IsSome(raw.conditions)
                      THEN ParseArray(ParseBranchCondition, Get(raw.conditions),
                                      Append(path, Key("conditions")))
                      ELSE Parsed(<<>>, Required(raw.conditions, path, "conditions"))
    IN  Parsed([type |-> "branch",
                conditions |-> conditions.data,
                default |-> raw.default],
               conditions.issues)

ParseRetryStep(raw, path) ==
    Parsed([type |-> "retry",
            maxAttempts |-> OrDefault(raw.maxAttempts, Dec(3, 0)),
            backoff |-> IF IsSome(raw.backoff)
                        THEN [multiplier |-> OrDefault(Get(raw.backoff).multiplier, Dec(2, 0))]
                        ELSE [multiplier |-> Dec(2, 0)]],
           Required(raw.backoff, path, "backoff"))

ParseDlqStep(raw, path) ==
    Parsed([type |-> "dlq", reason |-> OrDefault(raw.reason, "")],
           Required(raw.reason, path, "reason"))

ParseThrottleStep(raw, path) ==
    Parsed([type |-> "throttle",
            rate |-> OrDefault(raw.rate, 0),
            burst |-> raw.burst],
           Required(raw.rate, path, "rate"))

ParseCheckpointStep(raw, path) ==
    Parsed([type |-> "checkpoint", name |-> OrDefault(raw.name, "")],
           Required(raw.name, path, "name"))

ParseCircuitBreakerStep(raw, path) ==
    Parsed([type |-> "circuitBreaker",
            failureThreshold |-> OrDefault(raw.failureThreshold, Dec(5, 0)),
            recoveryTimeout |-> OrDefault(raw.recoveryTimeout, Dec(60, 0))],
           <<>>)

ParseStep(raw, path) ==
    IF BadDiscriminator(raw, StepTags) THEN Parsed(raw, DiscriminatorIssue(path))
    ELSE CASE Get(raw.type) = "connector" -> ParseConnectorStep(raw, path)
           [] Get(raw.type) = "map" -> ParseMapStep(raw, path)
           [] Get(raw.type) = "script" -> ParseScriptStep(raw, path)
           [] Get(raw.type) = "enrich" -> ParseEnrichStep(raw, path)
           [] Get(raw.type) = "branch" -> ParseBranchStep(raw, path)
           [] Get(raw.type) = "retry" -> ParseRetryStep(raw, path)
           [] Get(raw.type) = "dlq" -> ParseDlqStep(raw, path)
           [] Get(raw.type) = "throttle" -> ParseThrottleStep(raw, path)
           [] Get(raw.type) = "checkpoint" -> ParseCheckpointStep(raw, path)
           [] Get(raw.type) = "circuitBreaker" -> ParseCircuitBreakerStep(raw, path)

---------------------------------------------------------------------------
(* types.ts: transports *)

TransportTags == {"rest", "soap", "graphql", "jdbc", "kafka", "mqtt", "sftp", "fs",
                  "custom"}

HttpMethods == {"GET", "POST", "PUT", "DELETE", "PATCH"}

SftpModes == {"upload", "download"}

FsModes == {"read", "write", "append"}

ParseRestTransport(raw, path) ==
    Parsed([type |-> "rest",
            method |-> OrDefault(raw.method, ""),
            url |-> OrDefault(raw.url, ""),
            timeout |-> OrDefault(raw.timeout, Dec(30, 0))],
           RequiredEnum(raw.method, HttpMethods, path, "method")
           \o Required(raw.url, path, "url"))

ParseSoapTransport(raw, path) ==
    Parsed([type |-> "soap",
            url |-> OrDefault(raw.url, ""),
            action |-> OrDefault(raw.action, ""),
            envelope |-> OrDefault(raw.envelope, "")],
           Required(raw.url, path, "url")
           \o Required(raw.action, path, "action")
           \o Required(raw.envelope, path, "envelope"))

ParseGraphqlTransport(raw, path) ==
    Parsed([type |-> "graphql",
            url |-> OrDefault(raw.url, ""),
            query |-> OrDefault(raw.query, "")],
           Required(raw.url, path, "url") \o Required(raw.query, path, "query"))

ParseJdbcTransport(raw, path) ==
    Parsed([type |-> "jdbc",
            url |-> OrDefault(raw.url, <<>>),
            username |-> OrDefault(raw.username, ""),
            password |-> OrDefault(raw.password, ""),
            query |-> OrDefault(raw.query, "")],
           Required(raw.url, path, "url")
           \o Required(raw.username, path, "username")
           \o Required(raw.password, path, "password")
           \o Required(raw.query, path, "query"))

ParseKafkaTransport(raw, path) ==
    Parsed([type |-> "kafka",
            topic |-> OrDefault(raw.topic, ""),
            bootstrapServers |-> OrDefault(raw.bootstrapServers, <<>>)],
           Required(raw.topic, path, "topic")
           \o Required(raw.bootstrapServers, path, "bootstrapServers"))

ParseMqttTransport(raw, path) ==
    Parsed([type |-> "mqtt",
            topic |-> OrDefault(raw.topic, ""),
            qos |-> OrDefault(raw.qos, Dec(1, 0)),
            broker |-> OrDefault(raw.broker, ""),
            clientId |-> OrDefault(raw.clientId, "")],
           Required(raw.topic, path, "topic")
           \o MinMax(raw.qos, Dec(0, 0), Dec(2, 0), "0", "2", path, "qos")
           \o Required(raw.broker, path, "broker")
           \o Required(raw.clientId, path, "clientId"))

ParseSftpTransport(raw, path) ==
    Parsed([type |-> "sftp",
            host |-> OrDefault(raw.host, ""),
            username |-> OrDefault(raw.username, ""),
            path |-> OrDefault(raw.path, ""),
            mode |-> OrDefault(raw.mode, "")],
           Required(raw.host, path, "host")
           \o Required(raw.username, path, "username")
           \o Required(raw.path, path, "path")
           \o RequiredEnum(raw.mode, SftpModes, path, "mode"))

ParseFsTransport(raw, path) ==
    Parsed([type |-> "fs",
            path |-> OrDefault(raw.path, ""),
            mode |-> OrDefault(raw.mode, "")],
           Required(raw.path, path, "path")
           \o RequiredEnum(raw.mode, FsModes, path, "mode"))

ParseCustomTransport(raw, path) ==
    Parsed([type |-> "custom", name |-> OrDefault(raw.name, ""),
            config |-> OrDefault(raw.config, "")],
           Required(raw.name, path, "name") \o Required(raw.config, path, "config"))

ParseTransport(raw, path) ==
    IF BadDiscriminator(raw, TransportTags) THEN Parsed(raw, DiscriminatorIssue(path))
    ELSE CASE Get(raw.type) = "rest" -> ParseRestTransport(raw, path)
           [] Get(raw.type) = "soap" -> ParseSoapTransport(raw, path)
           [] Get(raw.type) = "graphql" -> ParseGraphqlTransport(raw, path)
           [] Get(raw.type) = "jdbc" -> ParseJdbcTransport(raw, path)
           [] Get(raw.type) = "kafka" -> ParseKafkaTransport(raw, path)
           [] Get(raw.type) = "mqtt" -> ParseMqttTransport(raw, path)
           [] Get(raw.type) = "sftp" -> ParseSftpTransport(raw, path)
           [] Get(raw.type) = "fs" -> ParseFsTransport(raw, path)
           [] Get(raw.type) = "custom" -> ParseCustomTransport(raw, path)

---------------------------------------------------------------------------
(* types.ts: policies *)

PolicyTags == {"qos", "idempotency", "mtls", "opa", "secrets"}

ParseQosPolicy(raw, path) ==
    Parsed([type |-> "qos", timeout |-> raw.timeout], <<>>)

ParseIdempotencyPolicy(raw, path) ==
    Parsed([type |-> "idempotency",
            key |-> OrDefault(raw.key, ""),
            ttl |-> OrDefault(raw.ttl, Dec(3600, 0))],
           Required(raw.key, path, "key"))

ParseMtlsPolicy(raw, path) ==
    Parsed([type |-> "mtls",
            certPath |-> OrDefault(raw.certPath, ""),
            keyPath |-> OrDefault(raw.keyPath, "")],
           Required(raw.certPath, path, "certPath")
           \o Required(raw.keyPath, path, "keyPath"))

ParseOpaPolicy(raw, path) ==
    Parsed([type |-> "opa", policyRef |-> OrDefault(raw.policyRef, "")],
           Required(raw.policyRef, path, "policyRef"))

ParseSecretsPolicy(raw, path) ==
    Parsed([type |-> "secrets",
            vaultPaths |-> OrDefault(raw.vaultPaths, <<>>),
            refreshInterval |-> OrDefault(raw.refreshInterval, Dec(300, 0))],
           Required(raw.vaultPaths, path, "vaultPaths"))

ParsePolicy(raw, path) ==
    IF BadDiscriminator(raw, PolicyTags) THEN Parsed(raw, DiscriminatorIssue(path))
    ELSE CASE Get(raw.type) = "qos" -> ParseQosPolicy(raw, path)
           [] Get(raw.type) = "idempotency" -> ParseIdempotencyPolicy(raw, path)
           [] Get(raw.type) = "mtls" -> ParseMtlsPolicy(raw, path)
           [] Get(raw.type) = "opa" -> ParseOpaPolicy(raw, path)
           [] Get(raw.type) = "secrets" -> ParseSecretsPolicy(raw, path)
---------------------------------------------------------------------------
(* types.ts: observability and the flow *)

ParsePayloadSampling(raw, path) ==
    Parsed([rate |-> OrDefault(raw.rate, Dec(0, 1)),
            maxSize |-> OrDefault(raw.maxSize, Dec(1024, 0))],
           MinMax(raw.rate, Dec(0, 0), Dec(1, 0), "0", "1", path, "rate"))

ParseObservability(raw, path) ==
    LET payloadSampling ==
            IF IsSome(raw.payloadSampling)
            THEN LET p == ParsePayloadSampling(Get(raw.payloadSampling),
                                               Append(path, Key("payloadSampling")))
                 IN  Parsed(Some(p.data), p.issues)
            ELSE Parsed(None, <<>>)
    IN  Parsed([sampleRate |-> OrDefault(raw.sampleRate, Dec(1, 0)),
                payloadSampling |-> payloadSampling.data],
               MinMax(raw.sampleRate, Dec(0, 0), Dec(1, 0), "0", "1", path, "sampleRate")
               \o payloadSampling.issues)

\* one element of FlowSchema.steps
ParseFlowStep(raw, path) ==
    LET step == IF IsSome(raw.step)
                THEN ParseStep(Get(raw.step), Append(path, Key("step")))
                ELSE Parsed(raw.step, Required(raw.step, path, "step"))
        transport == IF IsSome(raw.transport)
                     THEN LET p == ParseTransport(Get(raw.transport),
                                                  Append(path, Key("transport")))
                          IN  Parsed(Some(p.data), p.issues)
                     ELSE Parsed(None, <<>>)
        policies == IF IsSome(raw.policies)
                    THEN LET p == ParseArray(ParsePolicy, Get(raw.policies),
                                             Append(path, Key("policies")))
                         IN  Parsed(Some(p.data), p.issues)
                    ELSE Parsed(None, <<>>)
    IN  Parsed([id |-> OrDefault(raw.id, ""),
                name |-> OrDefault(raw.name, ""),
                step |-> step.data,
                transport |-> transport.data,
                policies |-> policies.data,
                next |-> raw.next,
                error |-> raw.error],
               Required(raw.id, path, "id")
               \o Required(raw.name, path, "name")
               \o step.issues \o transport.issues \o policies.issues)

\* FlowSchema.safeParse(flow): success with the typed flow (defaults applied,
\* a fresh value), or the list of issues
FlowSchemaSafeParse(flow) ==
    IF ~IsSome(flow)
    THEN [success |-> FALSE, data |-> None,
          issues |-> <<ZodIssue(<<>>, "Expected object, received null")>>]
    ELSE
    LET raw == Get(flow)
        metadata == IF IsSome(raw.metadata)
                    THEN ParseMetadata(Get(raw.metadata), <<Key("metadata")>>)
                    ELSE Parsed(None, Required(raw.metadata, <<>>, "metadata"))
        triggers == IF IsSome(raw.triggers)
                    THEN LET p == ParseArray(ParseTrigger, Get(raw.triggers),
                                             <<Key("triggers")>>)
                         IN  Parsed(Some(p.data), p.issues)
                    ELSE Parsed(None, <<>>)
        steps == IF IsSome(raw.steps)
                 THEN ParseArray(ParseFlowStep, Get(raw.steps), <<Key("steps")>>)
                 ELSE Parsed(<<>>, Required(raw.steps, <<>>, "steps"))
        observability ==
                 IF IsSome(raw.observability)
                 THEN LET p == ParseObservability(Get(raw.observability),
                                                  <<Key("observability")>>)
                      IN  Parsed(Some(p.data), p.issues)
                 ELSE Parsed(None, <<>>)
        issues == metadata.issues \o triggers.issues \o steps.issues
                  \o observability.issues
    IN  [success |-> issues = <<>>,
         data |-> [metadata |-> metadata.data,
                   triggers |-> triggers.data,
                   steps |-> steps.data,
                   observability |-> observability.data],
         issues |-> issues]

---------------------------------------------------------------------------
(* yaml.load(yaml.dump(flow)) of a typed flow: the plain document that     *)
(* holds every key the typed value holds.  Defaults that the parse filled  *)
(* in are ordinary supplied values of this document; a key of the set      *)
(* optional is in it only when the typed value has it.                     *)

Plain(typed, optional) ==
    [k \in DOMAIN typed |-> IF k \in optional THEN typed[k] ELSE Some(typed[k])]

PlainMetadata(metadata) ==
    [Plain(metadata, {"compliance", "rbac"}) EXCEPT
        !.owners = Some([i \in DOMAIN metadata.owners |-> Plain(metadata.owners[i], {})]),
        !.compliance = IF IsSome(metadata.compliance)
                       THEN Some(Plain(Get(metadata.compliance), {"dataRetention"}))
                       ELSE None,
        !.rbac = IF IsSome(metadata.rbac) THEN Some(Plain(Get(metadata.rbac), {})) ELSE None]

PlainTrigger(trigger) ==
    CASE trigger.type = "http" ->
             [Plain(trigger, {"auth", "rateLimit"}) EXCEPT
                 !.auth = IF IsSome(trigger.auth)
                          THEN Some(Plain(Get(trigger.auth), {"config"}))
                          ELSE None,
                 !.rateLimit = IF IsSome(trigger.rateLimit)
                               THEN Some(Plain(Get(trigger.rateLimit), {}))
                               ELSE None]
      [] trigger.type = "schedule" -> Plain(trigger, {"startDate", "endDate"})
      [] trigger.type = "sftp" -> Plain(trigger, {"password", "privateKey"})
      [] OTHER -> Plain(trigger, {})

PlainStepConfig(step) ==
    CASE step.type = "connector" -> Plain(step, {"timeout"})
      [] step.type = "branch" ->
             [Plain(step, {"default"}) EXCEPT
                 !.conditions = Some([i \in DOMAIN step.conditions |->
                                         Plain(step.conditions[i], {})])]
      [] step.type = "retry" ->
             [Plain(step, {}) EXCEPT !.backoff = Some(Plain(step.backoff, {}))]
      [] step.type = "throttle" -> Plain(step, {"burst"})
      [] OTHER -> Plain(step, {})

PlainTransport(transport) == Plain(transport, {})

PlainPolicy(policy) ==
    IF policy.type = "qos" THEN Plain(policy, {"timeout"}) ELSE Plain(policy, {})

PlainObservability(observability) ==
    [Plain(observability, {"payloadSampling"}) EXCEPT
        !.payloadSampling = IF IsSome(observability.payloadSampling)
                            THEN Some(Plain(Get(observability.payloadSampling), {}))
                            ELSE None]

PlainFlowStep(s) ==
    [Plain(s, {"transport", "policies", "next", "error"}) EXCEPT
        !.step = Some(PlainStepConfig(s.step)),
        !.transport = IF IsSome(s.transport)
                      THEN Some(PlainTransport(Get(s.transport)))
                      ELSE None,
        !.policies = IF IsSome(s.policies)
                     THEN Some([i \in DOMAIN Get(s.policies) |->
                                   PlainPolicy(Get(s.policies)[i])])
                     ELSE None]

\* const reparsed = yaml.load(yaml.dump(flow))
reparsed(flow) ==
    Some([metadata |-> Some(PlainMetadata(flow.metadata)),
          triggers |-> IF IsSome(flow.triggers)
                       THEN Some([i \in DOMAIN Get(flow.triggers) |->
                                     PlainTrigger(Get(flow.triggers)[i])])
                       ELSE None,
          steps |-> Some([i \in DOMAIN flow.steps |-> PlainFlowStep(flow.steps[i])]),
          observability |-> IF IsSome(flow.observability)
                            THEN Some(PlainObservability(Get(flow.observability)))
                            ELSE None])

---------------------------------------------------------------------------
(* validator.ts: metadata and trigger rules.  Every rule takes the pair of  *)
(* accumulators acc = [errors, warnings] and gives it back, extended.      *)

\* validateMetadata with the roles check guarded by the presence of rbac
\* (metadata.rbac && !metadata.rbac.roles.length)
validateMetadata_RbacPresent(acc, metadata) ==
    LET compliance == metadata.compliance
        gdprOrHipaa == IsSome(compliance) /\ (Get(compliance).gdpr \/ Get(compliance).hipaa)
        hipaa == IsSome(compliance) /\ Get(compliance).hipaa
        noRoles == IsSome(metadata.rbac) /\ Len(Get(metadata.rbac).roles) = 0
        a1 == IF gdprOrHipaa /\ ~TruthyOptNum(Get(compliance).dataRetention)
              THEN PushWarning(acc, "metadata.compliance.dataRetention",
                       "Data retention period should be specified for GDPR/HIPAA compliance",
                       "COMPLIANCE_DATA_RETENTION_MISSING")
              ELSE acc
        a2 == IF hipaa /\ noRoles
              THEN PushError(a1, "metadata.rbac.roles",
                       "RBAC roles are required for HIPAA compliance",
                       "HIPAA_RBAC_REQUIRED")
              ELSE a1
    IN  IF Len(metadata.owners) = 0
        THEN PushWarning(a2, "metadata.owners", "Flow should have at least one owner",
                         "OWNERS_MISSING")
        ELSE a2

\* validateMetadata reporting the missing owners as an error
validateMetadata_OwnersError(acc, metadata) ==
    LET compliance == metadata.compliance
        gdprOrHipaa == IsSome(compliance) /\ (Get(compliance).gdpr \/ Get(compliance).hipaa)
        hipaa == IsSome(compliance) /\ Get(compliance).hipaa
        noRoles == ~IsSome(metadata.rbac) \/ Len(Get(metadata.rbac).roles) = 0
        a1 == IF gdprOrHipaa /\ ~TruthyOptNum(Get(compliance).dataRetention)
              THEN PushWarning(acc, "metadata.compliance.dataRetention",
                       "Data retention period should be specified for GDPR/HIPAA compliance",
                       "COMPLIANCE_DATA_RETENTION_MISSING")
              ELSE acc
        a2 == IF hipaa /\ noRoles
              THEN PushError(a1, "metadata.rbac.roles",
                       "RBAC roles are required for HIPAA compliance",
                       "HIPAA_RBAC_REQUIRED")
              ELSE a1
    IN  IF Len(metadata.owners) = 0
        THEN PushError(a2, "metadata.owners", "Flow should have at least one owner",
                       "OWNERS_MISSING")
        ELSE a2

validateMetadata(acc, metadata) ==
    LET compliance == metadata.compliance
        gdprOrHipaa == IsSome(compliance) /\ (Get(compliance).gdpr \/ Get(compliance).hipaa)
        hipaa == IsSome(compliance) /\ Get(compliance).hipaa
        \* !metadata.rbac?.roles.length
        noRoles == ~IsSome(metadata.rbac) \/ Len(Get(metadata.rbac).roles) = 0
        a1 == IF gdprOrHipaa /\ ~TruthyOptNum(Get(compliance).dataRetention)
              THEN PushWarning(acc, "metadata.compliance.dataRetention",
                       "Data retention period should be specified for GDPR/HIPAA compliance",
                       "COMPLIANCE_DATA_RETENTION_MISSING")
              ELSE acc
        a2 == IF hipaa /\ noRoles
              THEN PushError(a1, "metadata.rbac.roles",
                       "RBAC roles are required for HIPAA compliance",
                       "HIPAA_RBAC_REQUIRED")
              ELSE a1
    IN  IF Len(metadata.owners) = 0
        THEN PushWarning(a2, "metadata.owners", "Flow should have at least one owner",
                         "OWNERS_MISSING")
        ELSE a2

validateHttpTrigger(acc, trigger, path) ==
    LET auth == trigger.auth
        \* trigger.auth?.type === 'api-key' && !trigger.auth.config?.key
        keyMissing == /\ IsSome(auth)
                      /\ Get(auth).type = "api-key"
                      /\ ~(IsSome(Get(auth).config) /\ TruthyOptStr(Get(Get(auth).config).key))
        a1 == IF keyMissing
              THEN PushError(acc, path \o ".auth.config.key",
                       "API key is required for api-key authentication",
                       "HTTP_API_KEY_MISSING")
              ELSE acc
    IN  IF IsSome(trigger.rateLimit) /\ Get(trigger.rateLimit).requests <= 0
        THEN PushError(a1, path \o ".rateLimit.requests",
                 "Rate limit requests must be greater than 0", "HTTP_RATE_LIMIT_INVALID")
        ELSE a1

validateScheduleTrigger(acc, trigger, path) ==
    LET cronParts == SplitLength(trigger.cron, " ")
        a1 == IF cronParts < 5 \/ cronParts > 6
              THEN PushError(acc, path \o ".cron", "Invalid cron expression format",
                             "SCHEDULE_CRON_INVALID")
              ELSE acc
    IN  IF /\ IsSome(trigger.startDate)
           /\ IsSome(trigger.endDate)
           /\ Get(trigger.startDate) >= Get(trigger.endDate)
        THEN PushError(a1, path \o ".endDate", "End date must be after start date",
                       "SCHEDULE_DATE_RANGE_INVALID")
        ELSE a1

validateKafkaTrigger(acc, trigger, path) ==
    IF Len(trigger.bootstrapServers) = 0
    THEN PushError(acc, path \o ".bootstrapServers",
             "At least one bootstrap server is required", "KAFKA_BOOTSTRAP_SERVERS_EMPTY")
    ELSE acc

validateMqttTrigger(acc, trigger, path) ==
    IF trigger.qos < Dec(0, 0) \/ trigger.qos > Dec(2, 0)
    THEN PushError(acc, path \o ".qos", "QoS must be between 0 and 2", "MQTT_QOS_INVALID")
    ELSE acc

validateSftpTrigger(acc, trigger, path) ==
    IF ~TruthyOptStr(trigger.password) /\ ~TruthyOptStr(trigger.privateKey)
    THEN PushError(acc, path,
             "Either password or privateKey must be provided for SFTP authentication",
             "SFTP_AUTH_MISSING")
    ELSE acc

validateJdbcTrigger(acc, trigger, path) ==
    IF ~StartsWith(trigger.url, <<"j", "d", "b", "c", ":">>)
    THEN PushError(acc, path \o ".url", "JDBC URL must start with \"jdbc:\"",
                   "JDBC_URL_INVALID")
    ELSE acc

validateFileWatchTrigger(acc, trigger, path) ==
    IF Len(trigger.events) = 0
    THEN PushError(acc, path \o ".events", "At least one event type must be specified",
                   "FILE_WATCH_EVENTS_EMPTY")
    ELSE acc

validateTriggers(acc, triggers) ==
    ForEach(LAMBDA a, trigger, index :
                LET path == Indexed("triggers", index)
                IN  CASE trigger.type = "http" -> validateHttpTrigger(a, trigger, path)
                      [] trigger.type = "schedule" -> validateScheduleTrigger(a, trigger, path)
                      [] trigger.type = "kafka" -> validateKafkaTrigger(a, trigger, path)
                      [] trigger.type = "mqtt" -> validateMqttTrigger(a, trigger, path)
                      [] trigger.type = "sftp" -> validateSftpTrigger(a, trigger, path)
                      [] trigger.type = "jdbc" -> validateJdbcTrigger(a, trigger, path)
                      [] trigger.type = "file-watch" ->
                             validateFileWatchTrigger(a, trigger, path)
                      [] OTHER -> a,
            acc, triggers)

---------------------------------------------------------------------------
(* validator.ts: step rules *)

validateConnectorStep(acc, step, path) ==
    LET a1 == IF ~TruthyStr(step.connectorRef)
              THEN PushError(acc, path \o ".connectorRef",
                             "Connector reference is required", "CONNECTOR_REF_MISSING")
              ELSE acc
        a2 == IF ~TruthyStr(step.operation)
              THEN PushError(a1, path \o ".operation", "Operation is required",
                             "CONNECTOR_OPERATION_MISSING")
              ELSE a1
    IN  IF TruthyOptNum(step.timeout) /\ Get(step.timeout) <= 0
        THEN PushError(a2, path \o ".timeout", "Timeout must be greater than 0",
                       "CONNECTOR_TIMEOUT_INVALID")
        ELSE a2

validateMapStep(acc, step, path) ==
    IF ~TruthyChars(step.expression) \/ Trim(step.expression) = <<>>
    THEN PushError(acc, path \o ".expression", "JSONata expression is required",
                   "MAP_EXPRESSION_MISSING")
    ELSE acc

validateScriptStep(acc, step, path) ==
    LET a1 == IF ~TruthyChars(step.code) \/ Trim(step.code) = <<>>
              THEN PushError(acc, path \o ".code", "Script code is required",
                             "SCRIPT_CODE_MISSING")
              ELSE acc
    IN  IF TruthyNum(step.timeout) /\ step.timeout <= 0
        THEN PushError(a1, path \o ".timeout", "Timeout must be greater than 0",
                       "SCRIPT_TIMEOUT_INVALID")
        ELSE a1

validateEnrichStep(acc, step, path) ==
    LET a1 == IF ~TruthyStr(step.source)
              THEN PushError(acc, path \o ".source", "Source is required",
                             "ENRICH_SOURCE_MISSING")
              ELSE acc
    IN  IF ~TruthyStr(step.key)
        THEN PushError(a1, path \o ".key", "Key field is required", "ENRICH_KEY_MISSING")
        ELSE a1

validateBranchStep(acc, step, path) ==
    LET a1 == IF Len(step.conditions) = 0
              THEN PushError(acc, path \o ".conditions",
                             "At least one condition is required", "BRANCH_CONDITIONS_EMPTY")
              ELSE acc
    IN  ForEach(LAMBDA a, condition, index :
                    LET cpath == Indexed(path \o ".conditions", index)
                        b1 == IF ~TruthyStr(condition.condition)
                              THEN PushError(a, cpath \o ".condition",
                                       "Condition expression is required",
                                       "BRANCH_CONDITION_MISSING")
                              ELSE a
                    IN  IF ~TruthyStr(condition.nextStep)
                        THEN PushError(b1, cpath \o ".nextStep", "Next step is required",
                                       "BRANCH_NEXT_STEP_MISSING")
                        ELSE b1,
                a1, step.conditions)

validateRetryStep(acc, step, path) ==
    IF step.maxAttempts <= 0
    THEN PushError(acc, path \o ".maxAttempts", "Max attempts must be greater than 0",
                   "RETRY_MAX_ATTEMPTS_INVALID")
    ELSE acc

validateDlqStep(acc, step, path) ==
    IF ~TruthyStr(step.reason)
    THEN PushError(acc, path \o ".reason", "DLQ reason is required", "DLQ_REASON_MISSING")
    ELSE acc

validateThrottleStep(acc, step, path) ==
    LET a1 == IF step.rate <= 0
              THEN PushError(acc, path \o ".rate", "Rate must be greater than 0",
                             "THROTTLE_RATE_INVALID")
              ELSE acc
    IN  IF TruthyOptNum(step.burst) /\ Get(step.burst) <= 0
        THEN PushError(a1, path \o ".burst", "Burst capacity must be greater than 0",
                       "THROTTLE_BURST_INVALID")
        ELSE a1

validateCheckpointStep(acc, step, path) ==
    IF ~TruthyStr(step.name)
    THEN PushError(acc, path \o ".name", "Checkpoint name is required",
                   "CHECKPOINT_NAME_MISSING")
    ELSE acc

validateCircuitBreakerStep(acc, step, path) ==
    LET a1 == IF step.failureThreshold <= 0
              THEN PushError(acc, path \o ".failureThreshold",
                       "Failure threshold must be greater than 0",
                       "CIRCUIT_BREAKER_THRESHOLD_INVALID")
              ELSE acc
    IN  IF step.recoveryTimeout <= 0
        THEN PushError(a1, path \o ".recoveryTimeout",
                 "Recovery timeout must be greater than 0", "CIRCUIT_BREAKER_TIMEOUT_INVALID")
        ELSE a1

validateStepConfig(acc, step, path) ==
    CASE step.type = "connector" -> validateConnectorStep(acc, step, path)
      [] step.type = "map" -> validateMapStep(acc, step, path)
      [] step.type = "script" -> validateScriptStep(acc, step, path)
      [] step.type = "enrich" -> validateEnrichStep(acc, step, path)
      [] step.type = "branch" -> validateBranchStep(acc, step, path)
      [] step.type = "retry" -> validateRetryStep(acc, step, path)
      [] step.type = "dlq" -> validateDlqStep(acc, step, path)
      [] step.type = "throttle" -> validateThrottleStep(acc, step, path)
      [] step.type = "checkpoint" -> validateCheckpointStep(acc, step, path)
      [] step.type = "circuitBreaker" -> validateCircuitBreakerStep(acc, step, path)
      [] OTHER -> acc
---------------------------------------------------------------------------
(* validator.ts: transport rules *)

\* the `!transport.x` check of a required string field, shared by the rules below
RequireField(acc, value, path, field, message, code) ==
    IF ~TruthyStr(value) THEN PushError(acc, path \o "." \o field, message, code) ELSE acc

validateRestTransport(acc, transport, path) ==
    LET a1 == RequireField(acc, transport.url, path, "url",
                           "URL is required for REST transport", "REST_URL_MISSING")
    IN  IF TruthyNum(transport.timeout) /\ transport.timeout <= 0
        THEN PushError(a1, path \o ".timeout", "Timeout must be greater than 0",
                       "REST_TIMEOUT_INVALID")
        ELSE a1

validateSoapTransport(acc, transport, path) ==
    RequireField(
        RequireField(acc, transport.url, path, "url",
                     "URL is required for SOAP transport", "SOAP_URL_MISSING"),
        transport.action, path, "action", "SOAP action is required", "SOAP_ACTION_MISSING")

validateGraphqlTransport(acc, transport, path) ==
    RequireField(
        RequireField(acc, transport.url, path, "url",
                     "URL is required for GraphQL transport", "GRAPHQL_URL_MISSING"),
        transport.query, path, "query", "GraphQL query is required", "GRAPHQL_QUERY_MISSING")

validateJdbcTransport(acc, transport, path) ==
    LET a1 == IF ~StartsWith(transport.url, <<"j", "d", "b", "c", ":">>)
              THEN PushError(acc, path \o ".url", "JDBC URL must start with \"jdbc:\"",
                             "JDBC_URL_INVALID")
              ELSE acc
    IN  RequireField(a1, transport.query, path, "query", "SQL query is required",
                     "JDBC_QUERY_MISSING")

validateKafkaTransport(acc, transport, path) ==
    LET a1 == RequireField(acc, transport.topic, path, "topic",
                           "Topic is required for Kafka transport", "KAFKA_TOPIC_MISSING")
    IN  IF Len(transport.bootstrapServers) = 0
        THEN PushError(a1, path \o ".bootstrapServers",
                 "At least one bootstrap server is required", "KAFKA_BOOTSTRAP_SERVERS_EMPTY")
        ELSE a1

validateMqttTransport(acc, transport, path) ==
    RequireField(
        RequireField(acc, transport.topic, path, "topic",
                     "Topic is required for MQTT transport", "MQTT_TOPIC_MISSING"),
        transport.broker, path, "broker", "Broker is required for MQTT transport",
        "MQTT_BROKER_MISSING")

validateSftpTransport(acc, transport, path) ==
    RequireField(
        RequireField(acc, transport.host, path, "host",
                     "Host is required for SFTP transport", "SFTP_HOST_MISSING"),
        transport.path, path, "path", "Path is required for SFTP transport",
        "SFTP_PATH_MISSING")

validateFsTransport(acc, transport, path) ==
    RequireField(acc, transport.path, path, "path",
                 "Path is required for file system transport", "FS_PATH_MISSING")

validateCustomTransport(acc, transport, path) ==
    RequireField(acc, transport.name, path, "name",
                 "Name is required for custom transport", "CUSTOM_TRANSPORT_NAME_MISSING")

validateTransport(acc, transport, path) ==
    CASE transport.type = "rest" -> validateRestTransport(acc, transport, path)
      [] transport.type = "soap" -> validateSoapTransport(acc, transport, path)
      [] transport.type = "graphql" -> validateGraphqlTransport(acc, transport, path)
      [] transport.type = "jdbc" -> validateJdbcTransport(acc, transport, path)
      [] transport.type = "kafka" -> validateKafkaTransport(acc, transport, path)
      [] transport.type = "mqtt" -> validateMqttTransport(acc, transport, path)
      [] transport.type = "sftp" -> validateSftpTransport(acc, transport, path)
      [] transport.type = "fs" -> validateFsTransport(acc, transport, path)
      [] transport.type = "custom" -> validateCustomTransport(acc, transport, path)
      [] OTHER -> acc

---------------------------------------------------------------------------
(* validator.ts: policy rules *)

validateQosPolicy(acc, policy, path) ==
    IF TruthyOptNum(policy.timeout) /\ Get(policy.timeout) <= 0
    THEN PushError(acc, path \o ".timeout", "QoS timeout must be greater than 0",
                   "QOS_TIMEOUT_INVALID")
    ELSE acc

validateIdempotencyPolicy(acc, policy, path) ==
    LET a1 == RequireField(acc, policy.key, path, "key",
                           "Idempotency key expression is required",
                           "IDEMPOTENCY_KEY_MISSING")
    IN  IF TruthyNum(policy.ttl) /\ policy.ttl <= 0
        THEN PushError(a1, path \o ".ttl", "TTL must be greater than 0",
                       "IDEMPOTENCY_TTL_INVALID")
        ELSE a1

validateMtlsPolicy(acc, policy, path) ==
    RequireField(
        RequireField(acc, policy.certPath, path, "certPath",
                     "Certificate path is required for mTLS", "MTLS_CERT_PATH_MISSING"),
        policy.keyPath, path, "keyPath", "Private key path is required for mTLS",
        "MTLS_KEY_PATH_MISSING")

validateOpaPolicy(acc, policy, path) ==
    RequireField(acc, policy.policyRef, path, "policyRef",
                 "Policy reference is required for OPA policy", "OPA_POLICY_REF_MISSING")

validateSecretsPolicy(acc, policy, path) ==
    LET a1 == IF Len(policy.vaultPaths) = 0
              THEN PushError(acc, path \o ".vaultPaths",
                             "At least one Vault path is required",
                             "SECRETS_VAULT_PATHS_EMPTY")
              ELSE acc
    IN  IF TruthyNum(policy.refreshInterval) /\ policy.refreshInterval <= 0
        THEN PushError(a1, path \o ".refreshInterval",
                 "Refresh interval must be greater than 0",
                 "SECRETS_REFRESH_INTERVAL_INVALID")
        ELSE a1

validatePolicy(acc, policy, path) ==
    CASE policy.type = "qos" -> validateQosPolicy(acc, policy, path)
      [] policy.type = "idempotency" -> validateIdempotencyPolicy(acc, policy, path)
      [] policy.type = "mtls" -> validateMtlsPolicy(acc, policy, path)
      [] policy.type = "opa" -> validateOpaPolicy(acc, policy, path)
      [] policy.type = "secrets" -> validateSecretsPolicy(acc, policy, path)
      [] OTHER -> acc

---------------------------------------------------------------------------
(* validator.ts: steps, step references, observability *)

validateStep(acc, step, path) ==
    LET a1 == validateStepConfig(acc, step.step, path \o ".step")
        a2 == IF IsSome(step.transport)
              THEN validateTransport(a1, Get(step.transport), path \o ".transport")
              ELSE a1
    IN  IF IsSome(step.policies)
        THEN ForEach(LAMBDA a, policy, index :
                         validatePolicy(a, policy, Indexed(path \o ".policies", index)),
                     a2, Get(step.policies))
        ELSE a2

\* the loop body of validateSteps; st = [acc, stepIds] carries the Set of ids
validateStepsBody_PreviousOnly(st, step, index) ==
    LET path == Indexed("steps", index)
        a1 == IF step.id \in st.stepIds
              THEN PushError(st.acc, path \o ".id", "Duplicate step ID: " \o step.id,
                             "DUPLICATE_STEP_ID")
              ELSE st.acc
    IN  [acc |-> validateStep(a1, step, path), stepIds |-> {step.id}]

validateStepsBody(st, step, index) ==
    LET path == Indexed("steps", index)
        a1 == IF step.id \in st.stepIds
              THEN PushError(st.acc, path \o ".id", "Duplicate step ID: " \o step.id,
                             "DUPLICATE_STEP_ID")
              ELSE st.acc
    IN  [acc |-> validateStep(a1, step, path), stepIds |-> st.stepIds \cup {step.id}]

validateSteps(acc, steps) ==
    ForEach(validateStepsBody, [acc |-> acc, stepIds |-> {}], steps).acc

\* the loop body of validateStepReferences for one step
validateStepReferencesBody(acc, stepIds, step, index) ==
    LET path == Indexed("steps", index)
        a1 == IF IsSome(step.next)
              THEN ForEach(LAMBDA a, nextStepId, nextIndex :
                               IF nextStepId \notin stepIds
                               THEN PushError(a, Indexed(path \o ".next", nextIndex),
                                        "Referenced step \"" \o nextStepId
                                            \o "\" does not exist",
                                        "INVALID_NEXT_STEP_REFERENCE")
                               ELSE a,
                           acc, Get(step.next))
              ELSE acc
    IN  IF TruthyOptStr(step.error) /\ Get(step.error) \notin stepIds
        THEN PushError(a1, path \o ".error",
                 "Referenced error step \"" \o Get(step.error) \o "\" does not exist",
                 "INVALID_ERROR_STEP_REFERENCE")
        ELSE a1

\* validateStepReferences with the id set filled while walking the steps, so
\* that only ids of the step itself and of earlier steps are known
validateStepReferences_IdsSoFar(acc, steps) ==
    ForEach(LAMBDA a, step, index :
                validateStepReferencesBody(a, {steps[i].id : i \in 1..(index + 1)},
                                           step, index),
            acc, steps)

RECURSIVE ReachableIn(_, _, _)
\* the positions reached from the positions in from by following at most n
\* further next references
ReachableIn(steps, from, n) ==
    IF n = 0 THEN from
    ELSE ReachableIn(steps,
                     from \cup {j \in DOMAIN steps :
                                   \E i \in from :
                                       /\ IsSome(steps[i].next)
                                       /\ \E k \in DOMAIN Get(steps[i].next) :
                                              Get(steps[i].next)[k] = steps[j].id},
                     n - 1)

\* validateStepReferences with a check that rejects every flow whose next
\* references lead from one step to another one and back
validateStepReferences_RejectCycles(acc, steps) ==
    LET stepIds == {steps[i].id : i \in DOMAIN steps}
        checked == ForEach(LAMBDA a, step, index :
                               validateStepReferencesBody(a, stepIds, step, index),
                           acc, steps)
    IN  IF \E i, j \in DOMAIN steps :
               /\ i # j
               /\ j \in ReachableIn(steps, {i}, Len(steps))
               /\ i \in ReachableIn(steps, {j}, Len(steps))
        THEN PushError(checked, "steps", "Flow contains cycles", "STEP_CYCLE")
        ELSE checked

\* validateStepReferences resolving the targets of branch steps as well
validateStepReferences_BranchTargets(acc, steps) ==
    LET stepIds == {steps[i].id : i \in DOMAIN steps}
        checked == ForEach(LAMBDA a, step, index :
                               validateStepReferencesBody(a, stepIds, step, index),
                           acc, steps)
    IN  IF \E i \in DOMAIN steps :
               /\ steps[i].step.type = "branch"
               /\ \/ \E c \in DOMAIN steps[i].step.conditions :
                         steps[i].step.conditions[c].nextStep \notin stepIds
                  \/ /\ IsSome(steps[i].step.default)
                     /\ Get(steps[i].step.default) \notin stepIds
        THEN PushError(checked, "steps", "Branch target does not exist",
                       "INVALID_BRANCH_TARGET_REFERENCE")
        ELSE checked

validateStepReferences(acc, steps) ==
    LET stepIds == {steps[i].id : i \in DOMAIN steps}
    IN  ForEach(LAMBDA a, step, index : validateStepReferencesBody(a, stepIds, step, index),
                acc, steps)

validateObservability(acc, observability) ==
    IF ~IsSome(observability) THEN acc
    ELSE
    LET o == Get(observability)
        a1 == IF o.sampleRate < Dec(0, 0) \/ o.sampleRate > Dec(1, 0)
              THEN PushError(acc, "observability.sampleRate",
                       "Sample rate must be between 0 and 1",
                       "OBSERVABILITY_SAMPLE_RATE_INVALID")
              ELSE acc
    IN  IF ~IsSome(o.payloadSampling) THEN a1
        ELSE
        LET ps == Get(o.payloadSampling)
            a2 == IF ps.rate < Dec(0, 0) \/ ps.rate > Dec(1, 0)
                  THEN PushError(a1, "observability.payloadSampling.rate",
                           "Payload sampling rate must be between 0 and 1",
                           "OBSERVABILITY_PAYLOAD_SAMPLING_RATE_INVALID")
                  ELSE a1
        IN  IF ps.maxSize <= 0
            THEN PushError(a2, "observability.payloadSampling.maxSize",
                     "Payload sampling max size must be greater than 0",
                     "OBSERVABILITY_PAYLOAD_SAMPLING_SIZE_INVALID")
            ELSE a2

---------------------------------------------------------------------------
(* validator.ts: schema errors, the result, validate *)

\* one element of a zod path as Array.prototype.join renders it
SegmentText(seg) == IF seg.isIndex THEN ToString(seg.index) ELSE seg.key

RECURSIVE JoinFrom(_, _, _)
JoinFrom(path, sep, i) ==
    IF i > Len(path) THEN ""
    ELSE (IF i > 1 THEN sep ELSE "") \o SegmentText(path[i]) \o JoinFrom(path, sep, i + 1)

\* zodError.path.join('.')
Join(path, sep) == JoinFrom(path, sep, 1)

addSchemaErrors(acc, issues) ==
    ForEach(LAMBDA a, zodError, index :
                PushError(a, Join(zodError.path, "."), zodError.message,
                          "SCHEMA_VALIDATION_ERROR"),
            acc, issues)

\* getResult with valid computed from both lists
getResult_WarningsBlock(acc) ==
    [valid |-> Len(acc.errors) = 0 /\ Len(acc.warnings) = 0,
     errors |-> acc.errors, warnings |-> acc.warnings]

getResult(acc) ==
    [valid |-> Len(acc.errors) = 0, errors |-> acc.errors, warnings |-> acc.warnings]

\* the semantic phase stopping at the first rule family that reports an error
semanticValidation_ShortCircuit(acc, validatedFlow) ==
    LET a1 == validateMetadata(acc, validatedFlow.metadata)
        a2 == validateTriggers(a1, OrDefault(validatedFlow.triggers, <<>>))
        a3 == validateSteps(a2, validatedFlow.steps)
        a4 == validateStepReferences(a3, validatedFlow.steps)
    IN  IF a1.errors # <<>> THEN a1
        ELSE IF a2.errors # <<>> THEN a2
        ELSE IF a3.errors # <<>> THEN a3
        ELSE IF a4.errors # <<>> THEN a4
        ELSE validateObservability(a4, validatedFlow.observability)

\* the semantic phase resolving the references before the per-step rules
semanticValidation_ReferencesFirst(acc, validatedFlow) ==
    LET a1 == validateMetadata(acc, validatedFlow.metadata)
        a2 == validateTriggers(a1, OrDefault(validatedFlow.triggers, <<>>))
        a3 == validateStepReferences(a2, validatedFlow.steps)
        a4 == validateSteps(a3, validatedFlow.steps)
    IN  validateObservability(a4, validatedFlow.observability)

\* the semantic phase of validate, in the order the code calls the rule families
semanticValidation(acc, validatedFlow) ==
    LET a1 == validateMetadata(acc, validatedFlow.metadata)
        a2 == validateTriggers(a1, OrDefault(validatedFlow.triggers, <<>>))
        a3 == validateSteps(a2, validatedFlow.steps)
        a4 == validateStepReferences(a3, validatedFlow.steps)
    IN  validateObservability(a4, validatedFlow.observability)

\* A TypeError in the rules.  The rules read members of values that the
\* schema leaves optional; such a read throws when it is reached while the
\* value is undefined.  Read names the expression, says whether the code
\* around it lets control reach it, and whether the value is undefined.
Read(expression, reached, undefined) ==
    [expression |-> expression, reached |-> reached, undefined |-> undefined]

\* validateMetadata with the read of dataRetention not nested in the test of
\* compliance?.gdpr || compliance?.hipaa
metadataReads_Unguarded(metadata) ==
    {Read("metadata.compliance.dataRetention", TRUE, ~IsSome(metadata.compliance))}

metadataReads(metadata) ==
    LET compliance == metadata.compliance
    IN  {Read("metadata.compliance.dataRetention",
              IsSome(compliance) /\ (Get(compliance).gdpr \/ Get(compliance).hipaa),
              ~IsSome(compliance))}

triggerReads(trigger) ==
    IF trigger.type = "http"
    THEN {Read("trigger.auth.config",
               IsSome(trigger.auth) /\ Get(trigger.auth).type = "api-key",
               ~IsSome(trigger.auth)),
          Read("trigger.rateLimit.requests",
               IsSome(trigger.rateLimit), ~IsSome(trigger.rateLimit))}
    ELSE {}

stepReads(step) ==
    {Read("step.policies.forEach", IsSome(step.policies), ~IsSome(step.policies)),
     Read("step.next.forEach", IsSome(step.next), ~IsSome(step.next))}

observabilityReads(observability) ==
    {Read("observability.sampleRate", IsSome(observability), ~IsSome(observability)),
     Read("observability.payloadSampling.rate",
          IsSome(observability) /\ IsSome(Get(observability).payloadSampling),
          ~IsSome(observability) \/ ~IsSome(Get(observability).payloadSampling))}

\* some rule throws on the typed flow
throwsTypeError(validatedFlow) ==
    \E read \in metadataReads(validatedFlow.metadata)
                \cup UNION {triggerReads(OrDefault(validatedFlow.triggers, <<>>)[i]) :
                               i \in DOMAIN OrDefault(validatedFlow.triggers, <<>>)}
                \cup UNION {stepReads(validatedFlow.steps[i]) :
                               i \in DOMAIN validatedFlow.steps}
                \cup observabilityReads(validatedFlow.observability) :
        read.reached /\ read.undefined

\* the instance after a call has pushed its findings: the two accumulators
\* and the value of `return this.getResult()`
returned(acc) ==
    [errors |-> acc.errors, warnings |-> acc.warnings, result |-> getResult(acc)]

\* the body of validate without the early return after addSchemaErrors: the
\* metadata rules run on whatever metadata the document carries
afterSafeParse_NoEarlyReturn(flow, schemaResult) ==
    IF ~schemaResult.success
    THEN IF IsSome(flow) /\ IsSome(Get(flow).metadata)
         THEN validateMetadata(addSchemaErrors(EmptyAcc, schemaResult.issues),
                               schemaResult.data.metadata)
         ELSE addSchemaErrors(EmptyAcc, schemaResult.issues)
    ELSE semanticValidation(EmptyAcc, schemaResult.data)

\* the body of validate once FlowSchema.safeParse(flow) has given schemaResult
afterSafeParse(flow, schemaResult) ==
    IF ~schemaResult.success
    THEN addSchemaErrors(EmptyAcc, schemaResult.issues)
    ELSE semanticValidation(EmptyAcc, schemaResult.data)

\* FlowValidator.validate(flow): the accumulators the call leaves in the
\* instance, and the result it returns
validate(flow) == returned(afterSafeParse(flow, FlowSchemaSafeParse(flow)))
---------------------------------------------------------------------------
(* The documents the model validates.  Every document is a raw (untyped)   *)
(* value as a caller may hand it to validate: keys may be absent, numbers  *)
(* out of range, tags unknown.                                             *)

MaxSteps == 3      \* longest steps list drawn from GraphStepPool
MaxNext == 2       \* longest next list of the reference documents
MaxTriggers == 2   \* longest triggers list
MaxPolicies == 2   \* longest policies list

\* all sequences over pool of length lo..hi
SeqsOf(pool, lo, hi) == UNION {[1..n -> pool] : n \in lo..hi}

\* --- metadata ---
RawOwner == [name |-> Some("Ann"), email |-> Some("owner@example.com")]

OwnersPool == {None, Some(<<>>), Some(<<RawOwner>>)}

CompliancePool ==
    {None} \cup
    {Some([gdpr |-> g, hipaa |-> h, dataRetention |-> r]) :
        g \in {None, Some(TRUE)},
        h \in {None, Some(FALSE), Some(TRUE)},
        r \in {None, Some(Dec(0, 0)), Some(Dec(30, 0))}}

RbacPool == {None, Some([roles |-> None]), Some([roles |-> Some(<<>>)]),
             Some([roles |-> Some(<<"admin">>)])}

RawMetadata(name, owners, compliance, rbac) ==
    [name |-> name, version |-> Some("1.0.0"), owners |-> owners,
     compliance |-> compliance, rbac |-> rbac]

BaseMetadata == RawMetadata(Some("X"), None, None, None)

MetadataPool ==
    {RawMetadata(Some("X"), o, c, r) : o \in OwnersPool, c \in CompliancePool, r \in RbacPool}
    \cup {[BaseMetadata EXCEPT !.version = None],
          RawMetadata(None, None, None, None),
          RawMetadata(Some("X"), Some(<<[RawOwner EXCEPT !.email = Some("nobody")]>>),
                      None, None),
          RawMetadata(Some("X"), Some(<<RawOwner, [RawOwner EXCEPT !.name = None]>>),
                      None, None)}

\* --- triggers ---
RECURSIVE Cron(_, _)
\* a cron string of n fields "*" separated by sep
Cron(n, sep) == IF n <= 1 THEN <<"*">> ELSE <<"*">> \o sep \o Cron(n - 1, sep)

JdbcUrl == <<"j", "d", "b", "c", ":", "h", "2">>

RawHttpTrigger == [type |-> Some("http"), path |-> Some("/in"), auth |-> None,
                   rateLimit |-> None]

RawScheduleTrigger == [type |-> Some("schedule"), cron |-> Some(Cron(5, <<" ">>)),
                       startDate |-> None, endDate |-> None]

RawKafkaTrigger == [type |-> Some("kafka"), topic |-> Some("t"), groupId |-> Some("g"),
                    bootstrapServers |-> Some(<<"k:9092">>)]

RawMqttTrigger == [type |-> Some("mqtt"), topic |-> Some("t"), qos |-> None,
                   broker |-> Some("b"), clientId |-> Some("c")]

RawSftpTrigger == [type |-> Some("sftp"), host |-> Some("h"), username |-> Some("u"),
                   password |-> Some("pw"), privateKey |-> None, path |-> Some("/d")]

RawJdbcTrigger == [type |-> Some("jdbc"), url |-> Some(JdbcUrl), username |-> Some("u"),
                   password |-> Some("pw"), query |-> Some("select 1"),
                   driver |-> Some("org.h2.Driver")]

RawFileWatchTrigger == [type |-> Some("file-watch"), path |-> Some("/d"), events |-> None]

HttpTriggerPool ==
    {RawHttpTrigger, [RawHttpTrigger EXCEPT !.path = None]}
    \cup {[RawHttpTrigger EXCEPT !.auth = Some([type |-> t, config |-> c])] :
             t \in {None, Some("api-key"), Some("basic"), Some("digest")},
             c \in {None, Some([key |-> None]), Some([key |-> Some("")]),
                    Some([key |-> Some("k1")])}}
    \cup {[RawHttpTrigger EXCEPT !.rateLimit = Some([requests |-> r, window |-> Some(Dec(60, 0))])] :
             r \in {None, Some(Dec(0, 0)), Some(-Dec(1, 0)), Some(Dec(10, 0))}}

ScheduleTriggerPool ==
    {[RawScheduleTrigger EXCEPT !.cron = c] :
        c \in {None, Some(<<>>), Some(Cron(4, <<" ">>)), Some(Cron(5, <<" ">>)),
               Some(Cron(6, <<" ">>)), Some(Cron(7, <<" ">>)), Some(Cron(5, <<"\t">>)),
               Some(Cron(5, <<" ", " ">>)), Some(Cron(3, <<" ", " ">>))}}
    \cup {[RawScheduleTrigger EXCEPT !.startDate = s, !.endDate = e] :
             s \in {None, Some(1), Some(2)}, e \in {None, Some(1), Some(2)}}

KafkaTriggerPool ==
    {RawKafkaTrigger, [RawKafkaTrigger EXCEPT !.bootstrapServers = Some(<<>>)],
     [RawKafkaTrigger EXCEPT !.bootstrapServers = None],
     [RawKafkaTrigger EXCEPT !.groupId = None]}

MqttTriggerPool ==
    {[RawMqttTrigger EXCEPT !.qos = q] :
        q \in {None, Some(Dec(0, 0)), Some(Dec(1, 5)), Some(Dec(2, 0)), Some(Dec(2, 5)),
               Some(Dec(3, 0)), Some(-Dec(1, 0))}}
    \cup {[RawMqttTrigger EXCEPT !.broker = None]}

SftpTriggerPool ==
    {[RawSftpTrigger EXCEPT !.password = p, !.privateKey = k] :
        p \in {None, Some(""), Some("pw")}, k \in {None, Some(""), Some("key")}}
    \cup {[RawSftpTrigger EXCEPT !.host = None]}

JdbcTriggerPool ==
    {[RawJdbcTrigger EXCEPT !.url = u] :
        u \in {None, Some(<<>>), Some(JdbcUrl), Some(<<"j", "d", "b", "c">>),
               Some(<<"h", "2", ":", "j", "d", "b", "c", ":">>)}}
    \cup {[RawJdbcTrigger EXCEPT !.driver = None]}

FileWatchTriggerPool ==
    {[RawFileWatchTrigger EXCEPT !.events = e] :
        e \in {None, Some(<<>>), Some(<<"modify", "delete">>), Some(<<"create", "rename">>)}}
    \cup {[RawFileWatchTrigger EXCEPT !.path = None]}

TriggerPool ==
    HttpTriggerPool \cup ScheduleTriggerPool \cup KafkaTriggerPool \cup MqttTriggerPool
    \cup SftpTriggerPool \cup JdbcTriggerPool \cup FileWatchTriggerPool
    \cup {[type |-> None], [type |-> Some("webhook")]}

\* triggers that share a list with others
SmallTriggerPool ==
    {RawHttpTrigger,
     [RawScheduleTrigger EXCEPT !.cron = Some(Cron(4, <<" ">>))],
     [RawMqttTrigger EXCEPT !.qos = Some(Dec(3, 0))]}

TriggersPool ==
    {None, Some(<<>>)}
    \cup {Some(<<t>>) : t \in TriggerPool}
    \cup {Some(ts) : ts \in SeqsOf(SmallTriggerPool, 2, MaxTriggers)}

\* --- nested step configurations ---
NumberPool == {None, Some(Dec(0, 0)), Some(-Dec(1, 0)), Some(Dec(5, 0))}

TextPool == {None, Some(""), Some("v")}

CodePool == {None, Some(<<>>), Some(<<" ", "\t">>), Some(<<" ", "x", " ">>)}

RawCheckpoint == [type |-> Some("checkpoint"), name |-> Some("c")]

StepConfigPool ==
    {[type |-> Some("connector"), connectorRef |-> r, operation |-> o, timeout |-> t] :
        r \in TextPool, o \in {None, Some(""), Some("get")}, t \in NumberPool}
    \cup {[type |-> Some("map"), expression |-> e] : e \in CodePool}
    \cup {[type |-> Some("script"), language |-> l, code |-> c, timeout |-> t] :
             l \in {None, Some("python"), Some("ruby")}, c \in CodePool, t \in NumberPool}
    \cup {[type |-> Some("enrich"), source |-> s, key |-> k, timeout |-> None] :
             s \in TextPool, k \in TextPool}
    \cup {[type |-> Some("branch"), conditions |-> c, default |-> d] :
             c \in {None, Some(<<>>)}
                   \cup {Some(<<[condition |-> x, nextStep |-> n]>>) :
                            x \in TextPool, n \in {None, Some(""), Some("a"), Some("ghost")}}
                   \cup {Some(<<[condition |-> Some("v"), nextStep |-> Some("a")],
                                [condition |-> Some(""), nextStep |-> Some("")]>>)},
             d \in {None, Some("ghost")}}
    \cup {[type |-> Some("retry"), maxAttempts |-> m, backoff |-> b] :
             m \in NumberPool, b \in {None, Some([multiplier |-> None])}}
    \cup {[type |-> Some("dlq"), reason |-> r] : r \in TextPool}
    \cup {[type |-> Some("throttle"), rate |-> r, burst |-> b] :
             r \in NumberPool, b \in NumberPool}
    \cup {[type |-> Some("checkpoint"), name |-> n] : n \in TextPool}
    \cup {[type |-> Some("circuitBreaker"), failureThreshold |-> f, recoveryTimeout |-> r] :
             f \in NumberPool, r \in NumberPool}
    \cup {[type |-> None], [type |-> Some("sleep")]}

\* --- transports ---
TransportPool ==
    {[type |-> Some("rest"), method |-> m, url |-> u, timeout |-> t] :
        m \in {None, Some("GET"), Some("HEAD")}, u \in TextPool, t \in NumberPool}
    \cup {[type |-> Some("soap"), url |-> u, action |-> a, envelope |-> Some("e")] :
             u \in TextPool, a \in TextPool}
    \cup {[type |-> Some("graphql"), url |-> u, query |-> q] : u \in TextPool, q \in TextPool}
    \cup {[type |-> Some("jdbc"), url |-> u, username |-> Some("u"), password |-> Some("pw"),
           query |-> q] :
             u \in {None, Some(<<>>), Some(JdbcUrl), Some(<<"h", "2">>)}, q \in TextPool}
    \cup {[type |-> Some("kafka"), topic |-> t, bootstrapServers |-> b] :
             t \in TextPool, b \in {None, Some(<<>>), Some(<<"k:9092">>)}}
    \cup {[type |-> Some("mqtt"), topic |-> t, qos |-> q, broker |-> b,
           clientId |-> Some("c")] :
             t \in TextPool, b \in TextPool,
             q \in {None, Some(Dec(1, 5)), Some(Dec(3, 0))}}
    \cup {[type |-> Some("sftp"), host |-> h, username |-> Some("u"), path |-> p,
           mode |-> m] :
             h \in TextPool, p \in TextPool, m \in {None, Some("upload"), Some("sync")}}
    \cup {[type |-> Some("fs"), path |-> p, mode |-> m] :
             p \in TextPool, m \in {None, Some("read"), Some("exec")}}
    \cup {[type |-> Some("custom"), name |-> n, config |-> c] :
             n \in TextPool, c \in {None, Some("cfg")}}
    \cup {[type |-> None], [type |-> Some("ftp")]}

\* --- policies ---
PolicyPool ==
    {[type |-> Some("qos"), timeout |-> t] : t \in NumberPool}
    \cup {[type |-> Some("idempotency"), key |-> k, ttl |-> t] :
             k \in TextPool, t \in NumberPool}
    \cup {[type |-> Some("mtls"), certPath |-> c, keyPath |-> k] :
             c \in TextPool, k \in TextPool}
    \cup {[type |-> Some("opa"), policyRef |-> p] : p \in TextPool}
    \cup {[type |-> Some("secrets"), vaultPaths |-> v, refreshInterval |-> r] :
             v \in {None, Some(<<>>), Some(<<"kv/a">>)}, r \in NumberPool}
    \cup {[type |-> None], [type |-> Some("audit")]}

\* policies that share a list with others
SmallPolicyPool ==
    {[type |-> Some("qos"), timeout |-> Some(-Dec(1, 0))],
     [type |-> Some("opa"), policyRef |-> Some("")],
     [type |-> Some("mtls"), certPath |-> Some("c"), keyPath |-> Some("k")]}

PoliciesPool ==
    {Some(<<>>)}
    \cup {Some(<<p>>) : p \in PolicyPool}
    \cup {Some(ps) : ps \in SeqsOf(SmallPolicyPool, 2, MaxPolicies)}

\* --- steps ---
RawStep(id, step, transport, policies, next, error) ==
    [id |-> id, name |-> Some("S"), step |-> step, transport |-> transport,
     policies |-> policies, next |-> next, error |-> error]

\* a step with a valid configuration and the given id and references
PlainStep(id, next, error) == RawStep(Some(id), Some(RawCheckpoint), None, None, next, error)

StepIdPool == {"a", "b"}

RefPool == {"a", "ghost"}

ErrorPool == {None, Some(""), Some("a"), Some("ghost")}

\* steps that make up the lists of up to MaxSteps steps
GraphStepPool ==
    {PlainStep(id, ref[1], ref[2]) :
        id \in StepIdPool,
        ref \in {<<None, None>>, <<Some(<<"b">>), None>>, <<Some(<<"ghost", "a">>), None>>,
                 <<None, Some("")>>, <<None, Some("ghost")>>,
                 <<Some(<<"ghost">>), Some("b")>>}}

\* n steps s1 .. sn whose next references form one directed cycle
Ring(n) ==
    [i \in 1..n |-> PlainStep("s" \o ToString(i), Some(<<"s" \o ToString((i % n) + 1)>>), None)]

StepsPool ==
    \* steps lists of every length whose steps differ in id and references
    {None, Some(<<>>)}
    \cup {Some(ss) : ss \in SeqsOf(GraphStepPool, 1, MaxSteps)}
    \* references in depth: every next list up to MaxNext, every error value
    \cup {Some(<<PlainStep("a", n, e), PlainStep("b", None, None)>>) :
             n \in {None} \cup {Some(ns) : ns \in SeqsOf(RefPool, 0, MaxNext)},
             e \in ErrorPool}
    \* one step of every configuration, transport or policies list
    \cup {Some(<<RawStep(Some("a"), Some(c), None, None, None, None)>>) : c \in StepConfigPool}
    \cup {Some(<<RawStep(Some("a"), Some(RawCheckpoint), Some(t), None, None, None)>>) :
             t \in TransportPool}
    \cup {Some(<<RawStep(Some("a"), Some(RawCheckpoint), None, p, None, None)>>) :
             p \in PoliciesPool}
    \* rings: every step names the following one, the last one the first
    \cup {Some(Ring(n)) : n \in 2..MaxSteps}
    \* a step that leads into a ring of two
    \cup {Some(<<PlainStep("s0", Some(<<"s1">>), None)>> \o Ring(2))}
    \* steps that miss a required key
    \cup {Some(<<RawStep(None, Some(RawCheckpoint), None, None, None, None)>>),
          Some(<<RawStep(Some("a"), None, None, None, None, None)>>),
          Some(<<PlainStep("a", None, None),
                 [PlainStep("a", Some(<<"ghost">>), None) EXCEPT !.name = None]>>)}

\* --- observability ---
RatePool == {None, Some(Dec(0, 0)), Some(Dec(0, 5)), Some(Dec(1, 0)), Some(Dec(1, 5)),
             Some(-Dec(0, 5))}

ObservabilityPool ==
    {None}
    \cup {Some([sampleRate |-> r, payloadSampling |-> None]) : r \in RatePool}
    \cup {Some([sampleRate |-> None,
                payloadSampling |-> Some([rate |-> r, maxSize |-> m])]) :
             r \in RatePool, m \in NumberPool}
    \cup {Some([sampleRate |-> Some(Dec(1, 5)),
                payloadSampling |-> Some([rate |-> Some(Dec(1, 5)),
                                          maxSize |-> Some(Dec(0, 0))])])}

\* --- documents ---
RawFlow(metadata, triggers, steps, observability) ==
    Some([metadata |-> metadata, triggers |-> triggers, steps |-> steps,
          observability |-> observability])

BaseSteps == Some(<<PlainStep("a", None, None)>>)

\* the minimal flow of the test suite: a name, a version, one checkpoint step
MinimalFlow == RawFlow(Some(BaseMetadata), None, BaseSteps, None)

\* components that are combined with each other: a clean one, ones with
\* semantic violations, ones that fail the schema
CrossMetadata ==
    {BaseMetadata,
     RawMetadata(Some("X"), Some(<<RawOwner>>), None, None),
     RawMetadata(Some("X"), None,
                 Some([gdpr |-> None, hipaa |-> Some(TRUE), dataRetention |-> None]), None),
     RawMetadata(None, None,
                 Some([gdpr |-> None, hipaa |-> Some(TRUE), dataRetention |-> None]), None)}

CrossTriggers ==
    {None,
     Some(<<[RawScheduleTrigger EXCEPT !.cron = Some(Cron(4, <<" ">>))]>>),
     Some(<<[RawHttpTrigger EXCEPT !.path = None]>>)}

CrossSteps ==
    {BaseSteps,
     Some(<<PlainStep("a", None, None), PlainStep("a", None, None)>>),
     Some(<<PlainStep("a", Some(<<"ghost">>), Some("ghost"))>>),
     Some(<<PlainStep("a", Some(<<"ghost">>), None), PlainStep("a", None, None)>>),
     Some(<<RawStep(Some("a"), Some([type |-> Some("dlq"), reason |-> Some("")]),
                    None, None, None, None)>>),
     Some(<<RawStep(None, Some(RawCheckpoint), None, None, Some(<<"ghost">>), None)>>),
     Some(<<>>),
     None}

CrossObservability ==
    {None,
     Some([sampleRate |-> None,
           payloadSampling |-> Some([rate |-> None, maxSize |-> Some(Dec(0, 0))])]),
     Some([sampleRate |-> Some(Dec(1, 5)), payloadSampling |-> None])}

Documents ==
    {None}
    \cup {RawFlow(None, None, BaseSteps, None)}
    \cup {RawFlow(Some(m), None, BaseSteps, None) : m \in MetadataPool}
    \cup {RawFlow(Some(BaseMetadata), t, BaseSteps, None) : t \in TriggersPool}
    \cup {RawFlow(Some(BaseMetadata), None, s, None) : s \in StepsPool}
    \cup {RawFlow(Some(BaseMetadata), None, BaseSteps, o) : o \in ObservabilityPool}
    \cup {RawFlow(Some(m), t, s, o) :
             m \in CrossMetadata, t \in CrossTriggers, s \in CrossSteps,
             o \in CrossObservability}

---------------------------------------------------------------------------
(* getValidationErrors.  A text is the sequence of the strings it was put  *)
(* together from, a line feed being the piece "\n".                        *)

LF == "\n"

\* `${e.path}: ${e.message} (${e.code})`
FindingMessage(e) == e.path \o ": " \o e.message \o " (" \o e.code \o ")"

\* result.errors.map(e => ...), result.warnings.map(w => ...)
Messages(findings) == [i \in DOMAIN findings |-> FindingMessage(findings[i])]

RECURSIVE JoinLines(_, _)
\* messages.join('\n'), from the i-th message on
JoinLines(messages, i) ==
    IF i > Len(messages) THEN <<>>
    ELSE (IF i > 1 THEN <<LF>> ELSE <<>>) \o <<messages[i]>> \o JoinLines(messages, i + 1)

\* the same function adding the warnings block whether or not there are
\* warnings
getValidationErrors_AlwaysWarnings(validationResult) ==
    IF validationResult.valid THEN <<"Flow is valid">>
    ELSE <<"Validation failed with " \o ToString(Len(validationResult.errors))
             \o " error(s):", LF>>
         \o JoinLines(Messages(validationResult.errors), 1)
         \o <<LF, LF, ToString(Len(validationResult.warnings)) \o " warning(s):", LF>>
         \o JoinLines(Messages(validationResult.warnings), 1)

getValidationErrors(validationResult) ==
    IF validationResult.valid THEN <<"Flow is valid">>
    ELSE <<"Validation failed with " \o ToString(Len(validationResult.errors))
             \o " error(s):", LF>>
         \o JoinLines(Messages(validationResult.errors), 1)
         \o (IF Len(validationResult.warnings) > 0
             THEN <<LF, LF, ToString(Len(validationResult.warnings)) \o " warning(s):", LF>>
                  \o JoinLines(Messages(validationResult.warnings), 1)
             ELSE <<>>)

---------------------------------------------------------------------------
(* parser.ts, schema.ts and scripts/validate-examples.js: texts.            *)
(*                                                                         *)
(* A text is what JSON.parse and yaml.load make of it: whether it is       *)
(* well-formed JSON, whether it is well-formed YAML (every JSON text is),  *)
(* and the value it denotes.  The value is given by the two views the      *)
(* schemas take of it: dsl, the keys FlowSchema of types.ts reads, and     *)
(* legacy, the keys FlowSchema of schema.ts reads; None where the value is *)
(* no object.                                                              *)

Text(json, yaml, value) == [json |-> json, yaml |-> yaml, value |-> value]

Value(dsl, legacy) == [dsl |-> dsl, legacy |-> legacy]

\* how a call ends
Returns(value) == [kind |-> "returned", value |-> value]
Throws(message) == [kind |-> "threw", message |-> message]

JSONParse(jsonString) ==
    IF jsonString.json THEN Returns(jsonString.value) ELSE Throws("SyntaxError: Unexpected token")

yamlLoad(content) ==
    IF content.yaml THEN Returns(content.value) ELSE Throws("YAMLException: bad indentation")

NodeTypes == {"source", "transform", "filter", "aggregate", "destination", "condition",
              "loop", "error_handler"}

EdgeTypes == {"data", "control", "error", "conditional"}

ParseNodeConfig(raw, path) ==
    Parsed([id |-> OrDefault(raw.id, ""), type |-> OrDefault(raw.type, ""),
            name |-> OrDefault(raw.name, ""), config |-> OrDefault(raw.config, "")],
           Required(raw.id, path, "id")
           \o RequiredEnum(raw.type, NodeTypes, path, "type")
           \o Required(raw.name, path, "name")
           \o Required(raw.config, path, "config"))

ParseEdgeConfig(raw, path) ==
    Parsed([id |-> OrDefault(raw.id, ""), source |-> OrDefault(raw.source, ""),
            target |-> OrDefault(raw.target, ""), type |-> OrDefault(raw.type, "")],
           Required(raw.id, path, "id")
           \o Required(raw.source, path, "source")
           \o Required(raw.target, path, "target")
           \o RequiredEnum(raw.type, EdgeTypes, path, "type"))

\* the flow a successful parse returns, from its parsed lists
LegacyFlow(raw, nodes, edges) ==
    [success |-> Required(raw.name, <<>>, "name") \o nodes.issues \o edges.issues = <<>>,
     data |-> [version |-> OrDefault(raw.version, "1.0.0"),
               name |-> OrDefault(raw.name, ""),
               nodes |-> nodes.data,
               edges |-> edges.data,
               status |-> "draft"],
     issues |-> Required(raw.name, <<>>, "name") \o nodes.issues \o edges.issues]

\* FlowSchema of schema.ts, as FlowSchema.parse uses it: the typed flow, or
\* the issues of the ZodError it throws
LegacyFlowSchemaParse(value) ==
    IF ~IsSome(value)
    THEN [success |-> FALSE, data |-> None,
          issues |-> <<ZodIssue(<<>>, "Expected object, received null")>>]
    ELSE LegacyFlow(Get(value),
                    IF IsSome(Get(value).nodes)
                    THEN ParseArray(ParseNodeConfig, Get(Get(value).nodes), <<Key("nodes")>>)
                    ELSE Parsed(<<>>, Required(Get(value).nodes, <<>>, "nodes")),
                    IF IsSome(Get(value).edges)
                    THEN ParseArray(ParseEdgeConfig, Get(Get(value).edges), <<Key("edges")>>)
                    ELSE Parsed(<<>>, Required(Get(value).edges, <<>>, "edges")))

\* the try block of parseYaml / parseJson after JSON.parse has ended, and the
\* catch clause: throw new Error(`Failed to parse flow ${format}: ${error}`)
parseText(format, parsed) ==
    IF parsed.kind = "threw"
    THEN Throws("Failed to parse flow " \o format \o ": " \o parsed.message)
    ELSE IF LegacyFlowSchemaParse(parsed.value.legacy).success
         THEN Returns(LegacyFlowSchemaParse(parsed.value.legacy).data)
         ELSE Throws("Failed to parse flow " \o format \o ": ZodError")

\* FlowParser.parseYaml(yamlString): JSON.parse stands in for a YAML parser
parseYaml(yamlString) == parseText("YAML", JSONParse(yamlString))

\* FlowParser.parseJson(jsonString)
parseJson(jsonString) == parseText("JSON", JSONParse(jsonString))

\* FlowParser.parseObject(obj), on the value the caller parsed
parseObject(obj) == parseText("object", Returns(obj))

\* the object validateYamlFile returns from its try block or its catch clause
fileResult(validationResult) ==
    [file |-> "flow.yaml", valid |-> validationResult.valid,
     errors |-> validationResult.errors, warnings |-> validationResult.warnings]

caught(message) ==
    [file |-> "flow.yaml", valid |-> FALSE,
     errors |-> <<[message |-> message, code |-> "PARSE_ERROR"]>>, warnings |-> <<>>]

\* validateYamlFile after yaml.load(content) has ended
validateLoaded(data, schemaResult) ==
    IF data.kind = "threw" THEN Returns(caught(data.message))
    ELSE IF schemaResult.success /\ throwsTypeError(schemaResult.data)
         THEN Returns(caught("TypeError: Cannot read properties of undefined"))
         ELSE Returns(fileResult(getResult(afterSafeParse(data.value.dsl, schemaResult))))

\* validateYamlFile(filePath), on the content of the file
validateYamlFile(content) ==
    validateLoaded(yamlLoad(content),
                   IF content.yaml THEN FlowSchemaSafeParse(content.value.dsl)
                   ELSE FlowSchemaSafeParse(None))

\* --- texts ---
LegacyNode == [id |-> Some("n1"), type |-> Some("source"), name |-> Some("N"),
               config |-> Some("cfg")]

LegacyEdge == [id |-> Some("e1"), source |-> Some("n1"), target |-> Some("n1"),
               type |-> Some("data")]

RawLegacyFlow(name, nodes, edges) ==
    Some([version |-> None, name |-> name, nodes |-> nodes, edges |-> edges])

\* an object without any key of schema.ts
NoLegacyKeys == RawLegacyFlow(None, None, None)

\* an object without any key of types.ts
NoDslKeys == RawFlow(None, None, None, None)

ValuePool ==
    {Value(None, None)}
    \cup {Value(RawFlow(Some(m), None, s, None), NoLegacyKeys) :
             m \in CrossMetadata, s \in CrossSteps}
    \cup {Value(NoDslKeys, RawLegacyFlow(n, ns, es)) :
             n \in {None, Some("L")},
             ns \in {None, Some(<<>>), Some(<<LegacyNode>>),
                     Some(<<[LegacyNode EXCEPT !.type = Some("sink")]>>)},
             es \in {None, Some(<<>>), Some(<<LegacyEdge>>)}}

Texts ==
    {Text(FALSE, FALSE, Value(None, None))}
    \cup {Text(j, TRUE, v) : j \in BOOLEAN, v \in ValuePool}

---------------------------------------------------------------------------
(* validator.ts of the node/edge model (scripts/validate-examples.js from  *)
(* line 214): the static FlowValidator.validate of a typed node/edge flow  *)
(* [name, nodes, edges], nodes [id, name], edges [source, target].         *)

RECURSIVE hasCyclesDFS(_, _, _, _)
RECURSIVE outgoingFrom(_, _, _, _)

\* after the recursive call for the i-th outgoing edge has ended with r =
\* [found, visited, recStack]: return true, or go on with the next edge
afterTarget(r, outgoingEdges, i, flow) ==
    IF r.found THEN r ELSE outgoingFrom(outgoingEdges, i + 1, flow, r)

\* the for loop of hasCyclesDFS over outgoingEdges from the i-th edge on;
\* st = [found, visited, recStack], found being the early return true
outgoingFrom(outgoingEdges, i, flow, st) ==
    IF i > Len(outgoingEdges) THEN st
    ELSE IF outgoingEdges[i].target \notin st.visited
         THEN afterTarget(hasCyclesDFS(outgoingEdges[i].target, flow,
                                       st.visited, st.recStack),
                          outgoingEdges, i, flow)
         ELSE IF outgoingEdges[i].target \in st.recStack
              THEN [st EXCEPT !.found = TRUE]
              ELSE outgoingFrom(outgoingEdges, i + 1, flow, st)

\* recStack.delete(nodeId); return false, unless the loop returned true
afterEdges(r, nodeId) ==
    IF r.found THEN r ELSE [r EXCEPT !.recStack = @ \ {nodeId}]

\* the same search leaving every finished node on the recursion stack
hasCyclesDFS_NoUnwind(nodeId, flow, visited, recStack) ==
    outgoingFrom(SelectSeq(flow.edges, LAMBDA edge : edge.source = nodeId), 1, flow,
                 [found |-> FALSE,
                  visited |-> visited \cup {nodeId},
                  recStack |-> recStack \cup {nodeId}])

\* hasCyclesDFS(nodeId, flow, visited, recStack): the sets are shared and
\* mutated by the calls, so they are returned along with the answer
hasCyclesDFS(nodeId, flow, visited, recStack) ==
    afterEdges(outgoingFrom(SelectSeq(flow.edges, LAMBDA edge : edge.source = nodeId),
                            1, flow,
                            [found |-> FALSE,
                             visited |-> visited \cup {nodeId},
                             recStack |-> recStack \cup {nodeId}]),
               nodeId)

RECURSIVE hasCyclesFrom(_, _, _)

\* after the search from the i-th node has ended with r
afterNode(r, flow, i) ==
    IF r.found THEN TRUE ELSE hasCyclesFrom(flow, i + 1, r)

\* the for loop of hasCycles over flow.nodes from the i-th node on
hasCyclesFrom(flow, i, st) ==
    IF i > Len(flow.nodes) THEN FALSE
    ELSE IF flow.nodes[i].id \notin st.visited
         THEN afterNode(hasCyclesDFS(flow.nodes[i].id, flow, st.visited, st.recStack),
                        flow, i)
         ELSE hasCyclesFrom(flow, i + 1, st)

hasCycles(flow) ==
    hasCyclesFrom(flow, 1, [found |-> FALSE, visited |-> {}, recStack |-> {}])

getConnectedNodes(flow) ==
    {flow.edges[e].source : e \in DOMAIN flow.edges}
    \cup {flow.edges[e].target : e \in DOMAIN flow.edges}

\* the errors of the loop over flow.nodes
RECURSIVE nodeErrors(_, _, _)
nodeErrors(nodes, i, nodeIds) ==
    IF i > Len(nodes) THEN <<>>
    ELSE (IF nodes[i].id \in nodeIds THEN <<"Duplicate node ID: " \o nodes[i].id>> ELSE <<>>)
         \o (IF nodes[i].name = ""
             THEN <<"Node " \o nodes[i].id \o " must have a name">> ELSE <<>>)
         \o nodeErrors(nodes, i + 1, nodeIds \cup {nodes[i].id})

\* the errors of the loop over flow.edges
RECURSIVE edgeErrors(_, _, _)
edgeErrors(edges, i, nodeIds) ==
    IF i > Len(edges) THEN <<>>
    ELSE (IF edges[i].source \notin nodeIds
          THEN <<"Edge references non-existent source node: " \o edges[i].source>>
          ELSE <<>>)
         \o (IF edges[i].target \notin nodeIds
             THEN <<"Edge references non-existent target node: " \o edges[i].target>>
             ELSE <<>>)
         \o edgeErrors(edges, i + 1, nodeIds)

RECURSIVE disconnectedWarnings(_, _, _)
disconnectedWarnings(nodes, i, connectedNodes) ==
    IF i > Len(nodes) THEN <<>>
    ELSE (IF nodes[i].id \notin connectedNodes
          THEN <<"Node " \o nodes[i].id \o " is not connected to any other node">>
          ELSE <<>>)
         \o disconnectedWarnings(nodes, i + 1, connectedNodes)

legacyErrors(flow) ==
    (IF flow.name = "" THEN <<"Flow name is required">> ELSE <<>>)
    \o (IF Len(flow.nodes) = 0 THEN <<"Flow must have at least one node">> ELSE <<>>)
    \o nodeErrors(flow.nodes, 1, {})
    \o edgeErrors(flow.edges, 1, {flow.nodes[n].id : n \in DOMAIN flow.nodes})

legacyWarnings(flow) ==
    (IF hasCycles(flow)
     THEN <<"Flow contains cycles which may cause infinite loops">> ELSE <<>>)
    \o disconnectedWarnings(flow.nodes, 1, getConnectedNodes(flow))

\* FlowValidator.validate(flow) of the node/edge model
legacyValidate(flow) ==
    [valid |-> Len(legacyErrors(flow)) = 0,
     errors |-> legacyErrors(flow),
     warnings |-> legacyWarnings(flow)]

\* --- node/edge flows ---
MaxNodes == 3      \* most nodes of a node/edge flow
MaxEdges == 3      \* most edges of a node/edge flow

NodeId(n) == "n" \o ToString(n)

\* the edges source -> target over the ids n1 .. nMaxNodes, in a fixed order
EdgePairs ==
    [k \in 1..(MaxNodes * MaxNodes) |->
        [source |-> NodeId(((k - 1) \div MaxNodes) + 1),
         target |-> NodeId(((k - 1) % MaxNodes) + 1)]]

RECURSIVE Pick(_, _)
\* the edges at the chosen positions of EdgePairs, from position k on
Pick(chosen, k) ==
    IF k > Len(EdgePairs) THEN <<>>
    ELSE (IF k \in chosen THEN <<EdgePairs[k]>> ELSE <<>>) \o Pick(chosen, k + 1)

Reverse(seq) == [i \in DOMAIN seq |-> seq[Len(seq) + 1 - i]]

EdgeLists ==
    UNION {{Pick(chosen, 1), Reverse(Pick(chosen, 1))} :
              chosen \in {c \in SUBSET DOMAIN EdgePairs : Cardinality(c) <= MaxEdges}}

NodeLists ==
    {[i \in 1..n |-> [id |-> NodeId(i), name |-> "N"]] : n \in 0..MaxNodes}
    \cup {<<[id |-> NodeId(1), name |-> "N"], [id |-> NodeId(2), name |-> ""],
            [id |-> NodeId(1), name |-> "N"]>>}

LegacyFlows ==
    {[name |-> name, nodes |-> nodes, edges |-> edges] :
        name \in {"", "L"}, nodes \in NodeLists, edges \in EdgeLists}

---------------------------------------------------------------------------
(* The state machine: a validator is constructed, handed a document, and   *)
(* validate runs to its return.                                            *)

NoResult == [valid |-> FALSE, errors |-> <<>>, warnings |-> <<>>]

\* getValidationErrors has not been called
NoReport == <<>>

\* no parser entry point is involved
NoText == Text(FALSE, FALSE, Value(None, None))
NoOutcome == [kind |-> "none"]

Init ==
    /\ doc \in Documents
    /\ errors = <<>>
    /\ warnings = <<>>
    /\ result = NoResult
    /\ pc = "ready"
    /\ held = <<>>
    /\ validator = 1
    /\ text = NoText
    /\ outcome = NoOutcome
    /\ report = NoReport

\* the same call writing the defaults of the schema into its argument
flowAfterValidate_DefaultsInPlace(flow, schemaResult) ==
    IF schemaResult.success THEN reparsed(schemaResult.data) ELSE flow

\* the caller's object after validate(flow): safeParse builds its typed value
\* from new objects and the rules read that value only, so no statement of
\* the call assigns into flow
flowAfterValidate(flow, schemaResult) == flow

\* the same call emptying and refilling the arrays in place: every result
\* the instance returned before shares them
earlierResults_SharedArrays(results, instance, latest) ==
    [k \in DOMAIN results |->
        IF results[k].validator = instance
        THEN [results[k] EXCEPT !.result.errors = latest.errors,
                                !.result.warnings = latest.warnings]
        ELSE results[k]]

\* the results returned by earlier calls after a call on the instance that
\* returns latest: validate assigns new arrays to this.errors and
\* this.warnings, so the arrays getResult handed out before are not touched
earlierResults(results, instance, latest) == results

\* validate as the caller sees it: it returns its result, or a TypeError of
\* a rule ends the call, in which case nothing is returned and the instance
\* is left with emptied accumulators and what the rules pushed before the
\* throw (which no caller can reach: the fields are private)
Validate ==
    /\ pc = "ready"
    /\ \E schemaResult \in {FlowSchemaSafeParse(doc)} :
           IF schemaResult.success /\ throwsTypeError(schemaResult.data)
           THEN /\ pc' = "threw"
                /\ errors' = EmptyAcc.errors
                /\ warnings' = EmptyAcc.warnings
                /\ UNCHANGED <<result, held>>
           ELSE \E v \in {returned(afterSafeParse(doc, schemaResult))} :
                    /\ pc' = "done"
                    /\ errors' = v.errors
                    /\ warnings' = v.warnings
                    /\ result' = v.result
                    /\ held' = Append(earlierResults(held, validator, v.result),
                                      [validator |-> validator, doc |-> doc,
                                       result |-> v.result])
    /\ doc' = flowAfterValidate(doc, FlowSchemaSafeParse(doc))
    /\ UNCHANGED <<validator, text, outcome, report>>

Next == Validate

Spec == Init /\ [][Next]_vars

\* a call of validate that has started runs to its end
FairSpec == Spec /\ WF_vars(Validate)

---------------------------------------------------------------------------
(* The caller formats the result it got: getValidationErrors(result).      *)

GetValidationErrors ==
    /\ pc = "done"
    /\ report' = getValidationErrors(result)
    /\ pc' = "reported"
    /\ UNCHANGED <<validator, doc, errors, warnings, result, held, text, outcome>>

NextReport == Validate \/ GetValidationErrors

ReportSpec == Init /\ [][NextReport]_vars

---------------------------------------------------------------------------
(* One caller, several calls: the caller validates up to MaxCalls          *)
(* documents, each either on the FlowValidator it already has or, as       *)
(* validateFlow does, on a newly constructed one.                          *)

MaxCalls == 3      \* calls of validate in one behaviour

\* documents handed to a validator that may have been used before: no
\* object, a clean flow, flows with several errors, a flow with warnings
ReuseDocuments ==
    {None,
     MinimalFlow,
     RawFlow(Some(BaseMetadata), None,
             Some(<<PlainStep("a", Some(<<"ghost">>), None), PlainStep("a", None, None)>>),
             None),
     RawFlow(Some(RawMetadata(None, None, None, None)), None, None, None),
     RawFlow(Some(RawMetadata(Some("X"), None,
                              Some([gdpr |-> Some(TRUE), hipaa |-> Some(TRUE),
                                    dataRetention |-> None]),
                              None)),
             None, BaseSteps, None)}

InitReuse ==
    /\ doc \in ReuseDocuments
    /\ errors = <<>>
    /\ warnings = <<>>
    /\ result = NoResult
    /\ pc = "ready"
    /\ held = <<>>
    /\ validator = 1
    /\ text = NoText
    /\ outcome = NoOutcome
    /\ report = NoReport

\* validator.validate(next): the instance is kept, with the accumulators
\* the previous call left in it
Reuse ==
    /\ pc = "done"
    /\ Len(held) < MaxCalls
    /\ doc' \in ReuseDocuments
    /\ pc' = "ready"
    /\ UNCHANGED <<validator, errors, warnings, result, held, text, outcome, report>>

\* validateFlow(next): const validator = new FlowValidator()
NewValidator ==
    /\ pc = "done"
    /\ Len(held) < MaxCalls
    /\ validator' = validator + 1
    /\ doc' \in ReuseDocuments
    /\ errors' = <<>>
    /\ warnings' = <<>>
    /\ pc' = "ready"
    /\ UNCHANGED <<result, held, text, outcome, report>>

NextReuse == Validate \/ Reuse \/ NewValidator

ReuseSpec == InitReuse /\ [][NextReuse]_vars

---------------------------------------------------------------------------
(* The round trip of the test suite: a document that parses is dumped from *)
(* its typed form, loaded again and handed to validateFlow.                *)

RoundTrip ==
    /\ pc = "done"
    /\ Len(held) = 1
    /\ \E schemaResult \in {FlowSchemaSafeParse(doc)} :
           /\ schemaResult.success
           /\ doc' = reparsed(schemaResult.data)
    /\ validator' = validator + 1
    /\ errors' = <<>>
    /\ warnings' = <<>>
    /\ pc' = "ready"
    /\ UNCHANGED <<result, held, text, outcome, report>>

NextRoundTrip == Validate \/ RoundTrip

RoundTripSpec == Init /\ [][NextRoundTrip]_vars

---------------------------------------------------------------------------
(* The parser entry points: a text is handed to FlowParser.parseJson, to   *)
(* FlowParser.parseYaml or, as the content of a file, to validateYamlFile  *)
(* of the examples script, and the call runs to its end.                   *)

InitParser ==
    /\ text \in Texts
    /\ outcome = NoOutcome
    /\ report = NoReport
    /\ doc = None
    /\ errors = <<>>
    /\ warnings = <<>>
    /\ result = NoResult
    /\ pc = "ready"
    /\ held = <<>>
    /\ validator = 1

ParseJson ==
    /\ pc = "ready"
    /\ outcome' = parseJson(text) @@ [entry |-> "parseJson"]
    /\ pc' = "parsed"
    /\ UNCHANGED <<validator, doc, errors, warnings, result, held, text, report>>

ParseYaml ==
    /\ pc = "ready"
    /\ outcome' = parseYaml(text) @@ [entry |-> "parseYaml"]
    /\ pc' = "parsed"
    /\ UNCHANGED <<validator, doc, errors, warnings, result, held, text, report>>

\* the caller has parsed the text into a generic tree and hands that over
ParseObject ==
    /\ pc = "ready"
    /\ text.json
    /\ outcome' = parseObject(text.value) @@ [entry |-> "parseObject"]
    /\ pc' = "parsed"
    /\ UNCHANGED <<validator, doc, errors, warnings, result, held, text, report>>

ValidateYamlFile ==
    /\ pc = "ready"
    /\ outcome' = validateYamlFile(text) @@ [entry |-> "validateYamlFile"]
    /\ pc' = "parsed"
    /\ UNCHANGED <<validator, doc, errors, warnings, result, held, text, report>>

NextParser == ParseJson \/ ParseYaml \/ ParseObject \/ ValidateYamlFile

ParserSpec == InitParser /\ [][NextParser]_vars

---------------------------------------------------------------------------
(* The node/edge validator: a typed node/edge flow is handed to the static *)
(* FlowValidator.validate, which returns its result.                       *)

InitLegacy ==
    /\ doc \in LegacyFlows
    /\ errors = <<>>
    /\ warnings = <<>>
    /\ result = NoResult
    /\ pc = "ready"
    /\ held = <<>>
    /\ validator = 1
    /\ text = NoText
    /\ outcome = NoOutcome
    /\ report = NoReport

LegacyValidate ==
    /\ pc = "ready"
    /\ result' = legacyValidate(doc)
    /\ pc' = "done"
    /\ UNCHANGED <<validator, doc, errors, warnings, held, text, outcome, report>>

NextLegacy == LegacyValidate

LegacySpec == InitLegacy /\ [][NextLegacy]_vars

---------------------------------------------------------------------------
(* Vocabulary of the properties *)

\* validate has returned for the document
Returned == pc = "done"

\* the document passes the schema; TypedFlow is then its typed form
StructurallyValid == FlowSchemaSafeParse(doc).success
TypedFlow == FlowSchemaSafeParse(doc).data

Range(seq) == {seq[i] : i \in DOMAIN seq}

\* the positions of a list of findings that carry a code
WithCode(findings, code) == {i \in DOMAIN findings : findings[i].code = code}

HasError(code) == WithCode(result.errors, code) # {}
HasWarning(code) == WithCode(result.warnings, code) # {}

\* the raw document's parts, for documents that are objects
RawDoc == Get(doc)
RawSteps == IF IsSome(doc) /\ IsSome(RawDoc.steps) THEN Get(RawDoc.steps) ELSE <<>>
RawCompliance ==
    IF IsSome(doc) /\ IsSome(RawDoc.metadata) THEN Get(RawDoc.metadata).compliance ELSE None
RawRbac ==
    IF IsSome(doc) /\ IsSome(RawDoc.metadata) THEN Get(RawDoc.metadata).rbac ELSE None
RawOwners ==
    IF IsSome(doc) /\ IsSome(RawDoc.metadata) THEN Get(RawDoc.metadata).owners ELSE None

\* in the raw document, two steps at different positions carry the same id
RawDuplicateIds ==
    \E i, j \in DOMAIN RawSteps :
        i < j /\ IsSome(RawSteps[i].id) /\ RawSteps[i].id = RawSteps[j].id

\* in the raw document, some next entry names no step
RawDanglingNext ==
    \E i \in DOMAIN RawSteps :
        /\ IsSome(RawSteps[i].next)
        /\ \E k \in DOMAIN Get(RawSteps[i].next) :
               \A j \in DOMAIN RawSteps : RawSteps[j].id # Some(Get(RawSteps[i].next)[k])

---------------------------------------------------------------------------
(* C1: the result returned by validate has valid = true exactly when its   *)
(* errors list is empty, whatever its warnings are.                        *)
C1_ValidIffNoErrors ==
    Returned => (result.valid <=> result.errors = <<>>)

\* a result that is valid although it carries warnings
C1_Witness == Returned /\ result.valid /\ Len(result.warnings) >= 1

MetadataFindings == validateMetadata(EmptyAcc, TypedFlow.metadata)
TriggerFindings == validateTriggers(EmptyAcc, OrDefault(TypedFlow.triggers, <<>>))
StepFindings == validateSteps(EmptyAcc, TypedFlow.steps)
ReferenceFindings == validateStepReferences(EmptyAcc, TypedFlow.steps)
ObservabilityFindings == validateObservability(EmptyAcc, TypedFlow.observability)

C3_AllFamiliesReported ==
    (Returned /\ StructurallyValid) =>
        /\ Range(result.errors) =
               Range(MetadataFindings.errors) \cup Range(TriggerFindings.errors)
               \cup Range(StepFindings.errors) \cup Range(ReferenceFindings.errors)
               \cup Range(ObservabilityFindings.errors)
        /\ Len(result.errors) =
               Len(MetadataFindings.errors) + Len(TriggerFindings.errors)
               + Len(StepFindings.errors) + Len(ReferenceFindings.errors)
               + Len(ObservabilityFindings.errors)
        /\ Range(result.warnings) =
               Range(MetadataFindings.warnings) \cup Range(TriggerFindings.warnings)
               \cup Range(StepFindings.warnings) \cup Range(ReferenceFindings.warnings)
               \cup Range(ObservabilityFindings.warnings)
        /\ Len(result.warnings) =
               Len(MetadataFindings.warnings) + Len(TriggerFindings.warnings)
               + Len(StepFindings.warnings) + Len(ReferenceFindings.warnings)
               + Len(ObservabilityFindings.warnings)

\* a document on which each of the five families reports an error
C3_Witness ==
    /\ Returned
    /\ StructurallyValid
    /\ HasError("HIPAA_RBAC_REQUIRED")
    /\ HasError("SCHEDULE_CRON_INVALID")
    /\ HasError("DUPLICATE_STEP_ID")
    /\ HasError("INVALID_NEXT_STEP_REFERENCE")
    /\ HasError("OBSERVABILITY_PAYLOAD_SAMPLING_SIZE_INVALID")

(* C4: for a structurally valid document there is a DUPLICATE_STEP_ID      *)
(* error (and the result is invalid) exactly when two steps at different   *)
(* positions share an id; there is exactly one such error for each step    *)
(* whose id is the id of an earlier step, at path steps[j].id.             *)
\* the 1-based positions of the steps that repeat an earlier step's id
RepeatedSteps ==
    LET steps == TypedFlow.steps
    IN  {j \in DOMAIN steps : \E i \in 1..(j - 1) : steps[i].id = steps[j].id}

DuplicatePath(j) == "steps[" \o ToString(j - 1) \o "].id"

C4_DuplicateStepId ==
    (Returned /\ StructurallyValid) =>
        LET found == WithCode(result.errors, "DUPLICATE_STEP_ID")
        IN  /\ {result.errors[e].path : e \in found} = {DuplicatePath(j) : j \in RepeatedSteps}
            /\ Cardinality(found) = Cardinality(RepeatedSteps)
            /\ (RepeatedSteps # {} => ~result.valid)

\* three steps of which the second and the third repeat an id, the third one
\* repeating the first step's id with another id in between
C4_Witness ==
    /\ Returned
    /\ StructurallyValid
    /\ Len(TypedFlow.steps) = 3
    /\ TypedFlow.steps[1].id = TypedFlow.steps[3].id
    /\ TypedFlow.steps[1].id # TypedFlow.steps[2].id
    /\ HasError("DUPLICATE_STEP_ID")

(* C5: for a structurally valid document, each entry k of each step i's    *)
(* next list that is not the id of any step yields exactly one             *)
(* INVALID_NEXT_STEP_REFERENCE error, at path steps[i].next[k], and makes  *)
(* the result invalid; an entry that names an existing step yields none.   *)
StepIdsOfFlow == {TypedFlow.steps[i].id : i \in DOMAIN TypedFlow.steps}

\* the pairs <<i, k>> (1-based) of next entries that name no step
DanglingNext ==
    LET steps == TypedFlow.steps
        stepIds == {steps[i].id : i \in DOMAIN steps}
    IN  UNION {{<<i, k>> : k \in {k \in DOMAIN OrDefault(steps[i].next, <<>>) :
                                     Get(steps[i].next)[k] \notin stepIds}} :
               i \in DOMAIN steps}

NextPath(i, k) == "steps[" \o ToString(i - 1) \o "].next[" \o ToString(k - 1) \o "]"

C5_DanglingNext ==
    (Returned /\ StructurallyValid) =>
        LET found == WithCode(result.errors, "INVALID_NEXT_STEP_REFERENCE")
        IN  /\ {result.errors[e].path : e \in found}
                   = {NextPath(ik[1], ik[2]) : ik \in DanglingNext}
            /\ Cardinality(found) = Cardinality(DanglingNext)
            /\ (DanglingNext # {} => ~result.valid)

\* a next list with a dangling entry after an entry that resolves to a later
\* step
C5_Witness ==
    /\ Returned
    /\ StructurallyValid
    /\ \E i \in DOMAIN TypedFlow.steps :
           /\ IsSome(TypedFlow.steps[i].next)
           /\ \E k \in DOMAIN Get(TypedFlow.steps[i].next) :
                  <<i, k>> \in DanglingNext
           /\ \E k \in DOMAIN Get(TypedFlow.steps[i].next), j \in DOMAIN TypedFlow.steps :
                  j > i /\ Get(TypedFlow.steps[i].next)[k] = TypedFlow.steps[j].id
    /\ HasError("INVALID_NEXT_STEP_REFERENCE")

(* C6: for a structurally valid document, every step whose error field is  *)
(* present (any string, the empty string included) and is not the id of    *)
(* any step yields an INVALID_ERROR_STEP_REFERENCE error and makes the     *)
(* result invalid.                                                         *)
ErrorPath(i) == "steps[" \o ToString(i - 1) \o "].error"

C6_DanglingError ==
    (Returned /\ StructurallyValid) =>
        \A i \in DOMAIN TypedFlow.steps :
            (IsSome(TypedFlow.steps[i].error)
             /\ Get(TypedFlow.steps[i].error) \notin StepIdsOfFlow) =>
                /\ \E e \in WithCode(result.errors, "INVALID_ERROR_STEP_REFERENCE") :
                       result.errors[e].path = ErrorPath(i)
                /\ ~result.valid

(* C7: for a structurally valid document with compliance.hipaa = true,     *)
(* HIPAA_RBAC_REQUIRED is reported (and the result is invalid) when        *)
(* rbac.roles is empty, also when rbac is omitted; when hipaa is false or  *)
(* absent, or roles is non-empty, it is not reported.                      *)
RawHipaa == IsSome(RawCompliance) /\ Get(RawCompliance).hipaa = Some(TRUE)

RawRolesEmpty ==
    \/ ~IsSome(RawRbac)
    \/ ~IsSome(Get(RawRbac).roles)
    \/ Get(Get(RawRbac).roles) = <<>>

C7_HipaaRequiresRoles ==
    (Returned /\ StructurallyValid) =>
        /\ HasError("HIPAA_RBAC_REQUIRED") <=> (RawHipaa /\ RawRolesEmpty)
        /\ Cardinality(WithCode(result.errors, "HIPAA_RBAC_REQUIRED")) <= 1
        /\ HasError("HIPAA_RBAC_REQUIRED") => ~result.valid

\* hipaa is set and the document has no rbac at all
C7_Witness ==
    /\ Returned
    /\ StructurallyValid
    /\ RawHipaa
    /\ ~IsSome(RawRbac)
    /\ HasError("HIPAA_RBAC_REQUIRED")

(* C8: a structurally valid document with no owners (omitted or an empty   *)
(* list) and no other rule violation, such as the minimal flow, validates  *)
(* with valid = true, no errors and exactly one warning, OWNERS_MISSING.   *)
NoOwners == RawOwners = None \/ RawOwners = Some(<<>>)

RawStepIds == {RawSteps[i].id : i \in DOMAIN RawSteps}

\* the document violates no rule other than, possibly, the owners rule: no
\* gdpr or hipaa flag, no triggers, no observability, and at least one step,
\* all of them checkpoints with distinct ids and resolving references
OtherwiseClean ==
    /\ IsSome(doc)
    /\ IsSome(RawDoc.metadata)
    /\ IsSome(Get(RawDoc.metadata).name)
    /\ \/ RawCompliance = None
       \/ /\ Get(RawCompliance).gdpr # Some(TRUE)
          /\ Get(RawCompliance).hipaa # Some(TRUE)
    /\ RawDoc.triggers \in {None, Some(<<>>)}
    /\ RawDoc.observability = None
    /\ Len(RawSteps) >= 1
    /\ \A i \in DOMAIN RawSteps :
           LET s == RawSteps[i]
           IN  /\ IsSome(s.id)
               /\ s = PlainStep(Get(s.id), s.next, s.error)
               /\ \A j \in DOMAIN RawSteps : RawSteps[j].id = s.id => j = i
               /\ IsSome(s.next) =>
                      \A k \in DOMAIN Get(s.next) : Some(Get(s.next)[k]) \in RawStepIds
               /\ IsSome(s.error) => (Get(s.error) # "" /\ s.error \in RawStepIds)

C8_OwnersMissingIsWarning ==
    /\ (Returned /\ doc = MinimalFlow) =>
           /\ result.valid
           /\ result.errors = <<>>
           /\ Len(result.warnings) = 1
           /\ result.warnings[1].code = "OWNERS_MISSING"
    /\ (Returned /\ NoOwners /\ OtherwiseClean) =>
           /\ result.valid
           /\ result.errors = <<>>
           /\ Len(result.warnings) = 1
           /\ result.warnings[1].code = "OWNERS_MISSING"
           /\ result.warnings[1].severity = "warning"

\* owners given as an empty list, in a document of several steps that refer
\* to each other
C8_Witness ==
    /\ Returned
    /\ OtherwiseClean
    /\ \/ RawOwners = Some(<<>>)
       \/ Len(RawSteps) >= 2 /\ \E i \in DOMAIN RawSteps : IsSome(RawSteps[i].next)
    /\ HasWarning("OWNERS_MISSING")

(* C9: for a structurally valid document, COMPLIANCE_DATA_RETENTION_MISSING *)
(* is emitted exactly when compliance.gdpr or compliance.hipaa is true and *)
(* compliance.dataRetention is not supplied; a document that supplies      *)
(* dataRetention (any number) gets no such warning.                        *)
RawGdprOrHipaa ==
    /\ IsSome(RawCompliance)
    /\ (Get(RawCompliance).gdpr = Some(TRUE) \/ Get(RawCompliance).hipaa = Some(TRUE))

C9_DataRetentionWarning ==
    (Returned /\ StructurallyValid) =>
        /\ HasWarning("COMPLIANCE_DATA_RETENTION_MISSING") <=>
               (RawGdprOrHipaa /\ ~IsSome(Get(RawCompliance).dataRetention))
        /\ result.valid <=> result.errors = <<>>

(* C10: for a document that is otherwise valid, an observability.sampleRate *)
(* outside [0,1] makes validate return an error whose code is              *)
(* OBSERVABILITY_SAMPLE_RATE_INVALID.                                      *)
RawSampleRate ==
    IF IsSome(doc) /\ IsSome(RawDoc.observability)
    THEN Get(RawDoc.observability).sampleRate
    ELSE None

SampleRateOutOfRange ==
    /\ IsSome(RawSampleRate)
    /\ (Get(RawSampleRate) < Dec(0, 0) \/ Get(RawSampleRate) > Dec(1, 0))

\* the document with its sampleRate taken out
WithoutSampleRate ==
    Some([RawDoc EXCEPT !.observability =
              Some([Get(RawDoc.observability) EXCEPT !.sampleRate = None])])

C10_SampleRateError ==
    (/\ Returned
     /\ SampleRateOutOfRange
     /\ Len(RawSteps) >= 1
     /\ validate(WithoutSampleRate).result.valid) =>
        HasError("OBSERVABILITY_SAMPLE_RATE_INVALID")

---------------------------------------------------------------------------
(* C11: a document whose steps list is missing or empty is never reported  *)
(* valid: the result has valid = false and at least one error.             *)
NoSteps == IsSome(doc) /\ RawDoc.steps \in {None, Some(<<>>)}

C11_NoStepsInvalid ==
    (Returned /\ NoSteps) => (~result.valid /\ Len(result.errors) >= 1)

---------------------------------------------------------------------------
(* C12: a document in which some step lists its own id in its next list or *)
(* names its own id as its error handler is never reported valid.          *)
RawSelfReference ==
    \E i \in DOMAIN RawSteps :
        LET s == RawSteps[i]
        IN  /\ IsSome(s.id)
            /\ \/ IsSome(s.next) /\ Get(s.id) \in Range(Get(s.next))
               \/ s.error = s.id

C12_SelfReferenceInvalid ==
    (Returned /\ RawSelfReference) => ~result.valid

---------------------------------------------------------------------------
(* C13: a structurally valid document whose next references all resolve    *)
(* and form a directed cycle through two or more steps gets no finding for *)
(* the cycle: its result is the one of the same document without the next  *)
(* lists, and it is valid when the document violates no other rule.        *)

\* the raw steps as ReachableIn reads them: ids as plain values
RawGraph == [i \in DOMAIN RawSteps |-> [id |-> OrDefault(RawSteps[i].id, ""),
                                         next |-> RawSteps[i].next]]

RawCycle ==
    \E i, j \in DOMAIN RawGraph :
        /\ i # j
        /\ j \in ReachableIn(RawGraph, {i}, Len(RawGraph))
        /\ i \in ReachableIn(RawGraph, {j}, Len(RawGraph))

\* the document with every next list of its steps removed
WithoutNext ==
    Some([RawDoc EXCEPT !.steps = Some([i \in DOMAIN RawSteps |->
                                           [RawSteps[i] EXCEPT !.next = None]])])

---------------------------------------------------------------------------
(* C14: a document with an mqtt trigger whose qos is none of 0, 1 and 2 is *)
(* never reported valid.                                                   *)
RawTriggers ==
    IF IsSome(doc) /\ IsSome(RawDoc.triggers) THEN Get(RawDoc.triggers) ELSE <<>>

RawBadQos ==
    \E i \in DOMAIN RawTriggers :
        /\ RawTriggers[i].type = Some("mqtt")
        /\ IsSome(RawTriggers[i].qos)
        /\ Get(RawTriggers[i].qos) \notin {Dec(0, 0), Dec(1, 0), Dec(2, 0)}

C14_MqttQosInvalid ==
    (Returned /\ RawBadQos) => ~result.valid

---------------------------------------------------------------------------
(* C15: two calls of validate on the same document return identical        *)
(* results (valid, errors and warnings in order), whether the calls are on *)
(* new validators or on one instance, whatever was validated in between.   *)
C15_SameDocumentSameResult ==
    \A i, j \in DOMAIN held :
        held[i].doc = held[j].doc => held[i].result = held[j].result

\* the same flow with errors went through the same instance twice, with
\* another flow with errors and warnings in between
C15_Witness ==
    /\ Len(held) = 3
    /\ held[1].doc = held[3].doc
    /\ held[2].doc # held[1].doc
    /\ Len(held[1].result.errors) >= 2
    /\ held[2].result.errors # <<>> /\ held[2].result.warnings # <<>>
    /\ held[1].validator = held[2].validator /\ held[2].validator = held[3].validator
    /\ held[3].result = held[1].result
    /\ errors = held[3].result.errors

---------------------------------------------------------------------------
(* C16: for a structurally valid document, the document obtained by        *)
(* dumping its typed flow and loading it again validates to the same valid *)
(* flag and to errors and warnings with the same codes and paths.          *)
CodesAndPaths(findings) ==
    [i \in DOMAIN findings |-> [code |-> findings[i].code, path |-> findings[i].path]]

C16_RoundTripValidatesAlike ==
    Len(held) = 2 =>
        /\ held[2].result.valid = held[1].result.valid
        /\ CodesAndPaths(held[2].result.errors) = CodesAndPaths(held[1].result.errors)
        /\ CodesAndPaths(held[2].result.warnings) = CodesAndPaths(held[1].result.warnings)

\* a flow with an mqtt trigger without qos came back with the default
\* filled in, and both validations reported findings
C16_Witness ==
    /\ Len(held) = 2
    /\ IsSome(Get(held[1].doc).triggers)
    /\ \E i \in DOMAIN Get(Get(held[1].doc).triggers) :
           /\ Get(Get(held[1].doc).triggers)[i].type = Some("mqtt")
           /\ Get(Get(held[1].doc).triggers)[i].qos = None
           /\ Get(Get(held[2].doc).triggers)[i].qos = Some(Dec(1, 0))
    /\ held[2].result.warnings # <<>>

---------------------------------------------------------------------------
---------------------------------------------------------------------------
(* Parse failures *)

\* the entry point has ended
EntryEnded == pc = "parsed"

\* the text is malformed for the parser the entry point hands it to:
\* JSON.parse in parseJson and parseYaml, yaml.load in validateYamlFile
Malformed ==
    IF outcome.entry = "validateYamlFile" THEN ~text.yaml ELSE ~text.json

\* C18: a text that cannot be parsed ends every parser entry point with a
\* returned result whose valid is false and whose errors are exactly one
\* finding with code PARSE_ERROR and no path; nothing is thrown and no Flow
\* is returned.
C18_ParseFailureIsData ==
    (EntryEnded /\ Malformed) =>
        /\ outcome.kind = "returned"
        /\ outcome.value.valid = FALSE
        /\ Len(outcome.value.errors) = 1
        /\ outcome.value.errors[1].code = "PARSE_ERROR"
        /\ "path" \notin DOMAIN outcome.value.errors[1]

---------------------------------------------------------------------------
(* The caller's document *)

---------------------------------------------------------------------------
(* The formatted report *)

\* getValidationErrors has returned its text for the result
Reported == pc = "reported"

RECURSIVE LinesFrom(_, _, _)
\* the lines of a text: its pieces between line feeds, each line the
\* concatenation of its pieces
LinesFrom(output, i, line) ==
    IF i > Len(output) THEN <<line>>
    ELSE IF output[i] = LF THEN <<line>> \o LinesFrom(output, i + 1, "")
         ELSE LinesFrom(output, i + 1, line \o output[i])

Lines(output) == LinesFrom(output, 1, "")

\* the line of a finding
ReportLine(f) == f.path \o ": " \o f.message \o " (" \o f.code \o ")"

\* C20: for a result with valid == false the report is the line
\* 'Validation failed with N error(s):', N the number of errors, then one
\* line 'path: message (code)' per error in list order, then, exactly when
\* there are warnings, an empty line, the line 'M warning(s):', M the number
\* of warnings, and one line per warning in list order.
C20_ReportFormat ==
    (Reported /\ ~result.valid) =>
        Lines(report) =
            <<"Validation failed with " \o ToString(Len(result.errors)) \o " error(s):">>
            \o [i \in DOMAIN result.errors |-> ReportLine(result.errors[i])]
            \o (IF result.warnings # <<>>
                THEN <<"", ToString(Len(result.warnings)) \o " warning(s):">>
                     \o [i \in DOMAIN result.warnings |-> ReportLine(result.warnings[i])]
                ELSE <<>>)

\* a report of a result with several errors and with warnings
C20_Witness ==
    /\ Reported
    /\ ~result.valid
    /\ Len(result.errors) >= 2
    /\ result.warnings # <<>>
    /\ Len(Lines(report)) = Len(result.errors) + Len(result.warnings) + 3


\* C21: every warning of a result validate returned, also of a result with
\* valid == true, is a line 'path: message (code)' of the report made of
\* that result.
C21_WarningsInReport ==
    Reported =>
        \A i \in DOMAIN result.warnings :
            ReportLine(result.warnings[i]) \in Range(Lines(report))

---------------------------------------------------------------------------
(* Optional numeric fields *)

\* the result has an error with the code at the path
ErrorAt(code, path) ==
    \E e \in DOMAIN result.errors :
        result.errors[e].code = code /\ result.errors[e].path = path

\* the step-level optional numeric fields: step type, key and error code
StepNumericFields ==
    {<<"connector", "timeout", "CONNECTOR_TIMEOUT_INVALID">>,
     <<"script", "timeout", "SCRIPT_TIMEOUT_INVALID">>,
     <<"throttle", "burst", "THROTTLE_BURST_INVALID">>}

\* the raw config of the i-th step when it is of the type, else no config
RawStepOfType(i, type) ==
    IF IsSome(RawSteps[i].step) /\ Get(RawSteps[i].step).type = Some(type)
    THEN RawSteps[i].step ELSE None

StepFieldPath(i, key) == "steps[" \o ToString(i - 1) \o "].step." \o key

\* C22: in a structurally valid document a connector timeout, a script
\* timeout or a throttle burst that is supplied with a value <= 0, 0
\* included, yields its error (CONNECTOR_TIMEOUT_INVALID,
\* SCRIPT_TIMEOUT_INVALID, THROTTLE_BURST_INVALID) and an invalid result;
\* where the field is omitted there is no such error.
C22_StepNumericNotPositive ==
    (Returned /\ StructurallyValid) =>
        \A i \in DOMAIN RawSteps : \A f \in StepNumericFields :
            LET config == RawStepOfType(i, f[1])
            IN  IsSome(config) =>
                    /\ (IsSome(Get(config)[f[2]]) /\ Get(Get(config)[f[2]]) <= 0) =>
                           (ErrorAt(f[3], StepFieldPath(i, f[2])) /\ ~result.valid)
                    /\ Get(config)[f[2]] = None => ~ErrorAt(f[3], StepFieldPath(i, f[2]))

\* the policy numeric fields: policy type, key and error code
PolicyNumericFields ==
    {<<"qos", "timeout", "QOS_TIMEOUT_INVALID">>,
     <<"idempotency", "ttl", "IDEMPOTENCY_TTL_INVALID">>,
     <<"secrets", "refreshInterval", "SECRETS_REFRESH_INTERVAL_INVALID">>}

RawPolicies(i) == OrDefault(RawSteps[i].policies, <<>>)

PolicyFieldPath(i, p, key) ==
    "steps[" \o ToString(i - 1) \o "].policies[" \o ToString(p - 1) \o "]." \o key

\* C23: in a structurally valid document a qos timeout, an idempotency ttl
\* or a secrets refreshInterval that is supplied with a value <= 0, 0
\* included, yields its error (QOS_TIMEOUT_INVALID, IDEMPOTENCY_TTL_INVALID,
\* SECRETS_REFRESH_INTERVAL_INVALID) and an invalid result; where the field
\* is omitted there is no such error.
C23_PolicyNumericNotPositive ==
    (Returned /\ StructurallyValid) =>
        \A i \in DOMAIN RawSteps : \A p \in DOMAIN RawPolicies(i) :
            \A f \in PolicyNumericFields :
                LET policy == RawPolicies(i)[p]
                IN  policy.type = Some(f[1]) =>
                        /\ (IsSome(policy[f[2]]) /\ Get(policy[f[2]]) <= 0) =>
                               (ErrorAt(f[3], PolicyFieldPath(i, p, f[2])) /\ ~result.valid)
                        /\ policy[f[2]] = None => ~ErrorAt(f[3], PolicyFieldPath(i, p, f[2]))

---------------------------------------------------------------------------
(* Cron strings *)

Whitespace == {" ", "\t", "\n"}

\* the number of whitespace-separated fields of a string: its maximal runs
\* of characters that are not whitespace
FieldCount(cs) ==
    Cardinality({i \in DOMAIN cs :
                    /\ cs[i] \notin Whitespace
                    /\ (i = 1 \/ cs[i - 1] \in Whitespace)})

\* C24: for a structurally valid document, SCHEDULE_CRON_INVALID is reported
\* for a schedule trigger exactly when its cron string does not consist of 5
\* or 6 whitespace-separated fields; 5 or 6 fields separated by tabs or by
\* several spaces are accepted.
C24_CronFieldCount ==
    (Returned /\ StructurallyValid) =>
        \A i \in DOMAIN RawTriggers :
            RawTriggers[i].type = Some("schedule") =>
                (ErrorAt("SCHEDULE_CRON_INVALID", "triggers[" \o ToString(i - 1) \o "].cron")
                    <=> FieldCount(Get(RawTriggers[i].cron)) \notin {5, 6})

---------------------------------------------------------------------------
(* Paths of structural errors *)

RECURSIVE BracketFrom(_, _)
\* a path in the notation of the semantic findings: keys joined by dots,
\* list positions in brackets (steps[2].step.expression)
BracketFrom(path, i) ==
    IF i > Len(path) THEN ""
    ELSE (IF path[i].isIndex THEN "[" \o ToString(path[i].index) \o "]"
          ELSE (IF i > 1 THEN "." ELSE "") \o path[i].key)
         \o BracketFrom(path, i + 1)

BracketPath(path) == BracketFrom(path, 1)

\* C25: each structural problem of a document is reported as exactly one
\* error with code SCHEMA_VALIDATION_ERROR whose path locates the field in
\* the notation of the semantic findings, list positions in brackets.
C25_SchemaErrorPaths ==
    (Returned /\ ~StructurallyValid) =>
        LET issues == FlowSchemaSafeParse(doc).issues
        IN  /\ Len(result.errors) = Len(issues)
            /\ \A k \in DOMAIN issues :
                   /\ result.errors[k].code = "SCHEMA_VALIDATION_ERROR"
                   /\ result.errors[k].path = BracketPath(issues[k].path)

---------------------------------------------------------------------------
(* One Type Model *)

\* validate reports no SCHEMA_VALIDATION_ERROR for the document the text
\* denotes
PassesValidatorSchema ==
    WithCode(validate(text.value.dsl).result.errors, "SCHEMA_VALIDATION_ERROR") = {}

\* C26: FlowParser.parseObject, and parseJson on the JSON text of the
\* document, return a Flow for exactly the documents for which validate
\* reports no SCHEMA_VALIDATION_ERROR, and fail for exactly the others.
C26_ParserAgreesWithValidator ==
    (EntryEnded /\ text.json /\ outcome.entry \in {"parseObject", "parseJson"}) =>
        (outcome.kind = "returned" <=> PassesValidatorSchema)

---------------------------------------------------------------------------
(* The node/edge validator's cycle warning *)

CycleWarning == "Flow contains cycles which may cause infinite loops"

NodeIdsOf(flow) == {flow.nodes[n].id : n \in DOMAIN flow.nodes}

\* the ids one edge away from the ids of a set
Successors(flow, ids) ==
    {flow.edges[e].target : e \in {e \in DOMAIN flow.edges : flow.edges[e].source \in ids}}

RECURSIVE Walk(_, _, _)
\* the ids reachable from the ids of a set in at most n further edges
Walk(flow, ids, n) ==
    IF n = 0 THEN ids ELSE Walk(flow, ids \cup Successors(flow, ids), n - 1)

\* the directed edge graph has a cycle: some node is reachable from itself
\* along one or more edges
EdgeCycle(flow) ==
    \E x \in NodeIdsOf(flow) : x \in Walk(flow, Successors(flow, {x}), Len(flow.edges))

EdgesConnectNodes(flow) ==
    \A e \in DOMAIN flow.edges :
        flow.edges[e].source \in NodeIdsOf(flow) /\ flow.edges[e].target \in NodeIdsOf(flow)

\* C27: for a node/edge flow whose edges all connect existing nodes the
\* validator warns 'Flow contains cycles which may cause infinite loops'
\* exactly when the directed edge graph has a cycle, a self-loop included,
\* and the warning leaves valid as the errors alone make it.
C27_LegacyCycleWarning ==
    (Returned /\ EdgesConnectNodes(doc)) =>
        /\ (CycleWarning \in Range(result.warnings)) <=> EdgeCycle(doc)
        /\ result.valid <=> result.errors = <<>>

\* a valid flow of three nodes has been warned about the cycle through all
\* of them
C27_Witness ==
    /\ Returned
    /\ EdgesConnectNodes(doc)
    /\ CycleWarning \in Range(result.warnings)
    /\ result.valid
    /\ Len(doc.edges) = 3
    /\ \A e \in DOMAIN doc.edges : doc.edges[e].source # doc.edges[e].target
    /\ \A x \in NodeIdsOf(doc) : Cardinality({e \in DOMAIN doc.edges : doc.edges[e].source = x}) = 1

---------------------------------------------------------------------------
(* Branch targets *)

\* the raw config of a branch step with each supplied, non-empty target set
\* to the given id
RetargetBranch(config, target) ==
    [config EXCEPT
        !.conditions = IF IsSome(@)
                       THEN Some([c \in DOMAIN Get(@) |->
                                    [Get(@)[c] EXCEPT
                                        !.nextStep = IF IsSome(@) /\ Get(@) # ""
                                                     THEN Some(target) ELSE @]])
                       ELSE @,
        !.default = IF IsSome(@) /\ Get(@) # "" THEN Some(target) ELSE @]

\* the document with every branch target set to the id of its first step
Retargeted ==
    Some([RawDoc EXCEPT !.steps =
        Some([i \in DOMAIN RawSteps |->
                IF IsSome(RawStepOfType(i, "branch"))
                THEN [RawSteps[i] EXCEPT
                         !.step = Some(RetargetBranch(Get(RawSteps[i].step),
                                                      Get(RawSteps[1].id)))]
                ELSE RawSteps[i]])])

\* a supplied, non-empty target of a branch step names no step
RawDanglingBranchTarget ==
    \E i \in DOMAIN RawSteps :
        /\ IsSome(RawStepOfType(i, "branch"))
        /\ LET config == Get(RawSteps[i].step)
           IN  \/ config.default \notin RawStepIds \cup {None, Some("")}
               \/ /\ IsSome(config.conditions)
                  /\ \E c \in DOMAIN Get(config.conditions) :
                         Get(config.conditions)[c].nextStep
                             \notin RawStepIds \cup {None, Some("")}

\* C28: only next and error are resolved against the step ids: a branch
\* step whose conditions[].nextStep or default names no step gets no error
\* for it, so the result is the one of the same document with the branch
\* targets naming a step, and a document whose only unresolved ids are
\* branch targets is valid.
C28_BranchTargetsUnchecked ==
    (Returned /\ StructurallyValid /\ RawDanglingBranchTarget /\ Get(RawSteps[1].id) # "") =>
        /\ result = validate(Retargeted).result
        /\ validate(Retargeted).result.valid => result.valid

\* a flow whose branch step names the missing step "ghost" in a condition
\* and as its default has been reported valid
C28_Witness ==
    /\ Returned
    /\ StructurallyValid
    /\ result.valid
    /\ Some("ghost") \notin RawStepIds
    /\ \E i \in DOMAIN RawSteps :
           /\ IsSome(RawStepOfType(i, "branch"))
           /\ Get(RawSteps[i].step).default = Some("ghost")
           /\ IsSome(Get(RawSteps[i].step).conditions)
           /\ \E c \in DOMAIN Get(Get(RawSteps[i].step).conditions) :
                  Get(Get(RawSteps[i].step).conditions)[c].nextStep = Some("ghost")

---------------------------------------------------------------------------
(* Results the caller holds *)

---------------------------------------------------------------------------
(* The order of the errors *)

RECURSIVE FlatFrom(_, _)
\* the concatenation of a list of lists, from the i-th list on
FlatFrom(lists, i) == IF i > Len(lists) THEN <<>> ELSE lists[i] \o FlatFrom(lists, i + 1)

Flat(lists) == FlatFrom(lists, 1)

\* the errors the rule of one trigger reports for it at the path
TriggerErrors(trigger, path) ==
    (CASE trigger.type = "http" -> validateHttpTrigger(EmptyAcc, trigger, path)
       [] trigger.type = "schedule" -> validateScheduleTrigger(EmptyAcc, trigger, path)
       [] trigger.type = "kafka" -> validateKafkaTrigger(EmptyAcc, trigger, path)
       [] trigger.type = "mqtt" -> validateMqttTrigger(EmptyAcc, trigger, path)
       [] trigger.type = "sftp" -> validateSftpTrigger(EmptyAcc, trigger, path)
       [] trigger.type = "jdbc" -> validateJdbcTrigger(EmptyAcc, trigger, path)
       [] trigger.type = "file-watch" -> validateFileWatchTrigger(EmptyAcc, trigger, path)
       [] OTHER -> EmptyAcc).errors

\* the errors of the per-step rules for the i-th step (1-based): the
\* duplicate id, then the step config, the transport, the policies by index
StepRuleErrors(steps, i) ==
    LET path == "steps[" \o ToString(i - 1) \o "]"
    IN  (IF \E j \in 1..(i - 1) : steps[j].id = steps[i].id
         THEN PushError(EmptyAcc, path \o ".id", "", "DUPLICATE_STEP_ID").errors
         ELSE <<>>)
        \o validateStepConfig(EmptyAcc, steps[i].step, path \o ".step").errors
        \o (IF IsSome(steps[i].transport)
            THEN validateTransport(EmptyAcc, Get(steps[i].transport),
                                   path \o ".transport").errors
            ELSE <<>>)
        \o Flat([p \in DOMAIN OrDefault(steps[i].policies, <<>>) |->
                    validatePolicy(EmptyAcc, Get(steps[i].policies)[p],
                                   path \o ".policies[" \o ToString(p - 1) \o "]").errors])

\* the reference errors of the i-th step: its dangling next entries in list
\* order, then its dangling error step
StepReferenceErrors(steps, i) ==
    LET path == "steps[" \o ToString(i - 1) \o "]"
        stepIds == {steps[j].id : j \in DOMAIN steps}
        next == OrDefault(steps[i].next, <<>>)
    IN  Flat([k \in DOMAIN next |->
                 IF next[k] \notin stepIds
                 THEN PushError(EmptyAcc, path \o ".next[" \o ToString(k - 1) \o "]", "",
                                "INVALID_NEXT_STEP_REFERENCE").errors
                 ELSE <<>>])
        \o (IF steps[i].error \notin {None, Some("")} /\ Get(steps[i].error) \notin stepIds
            THEN PushError(EmptyAcc, path \o ".error", "",
                           "INVALID_ERROR_STEP_REFERENCE").errors
            ELSE <<>>)

\* the errors of a typed flow in the claimed order
ErrorsInOrder(flow) ==
    validateMetadata(EmptyAcc, flow.metadata).errors
    \o Flat([t \in DOMAIN OrDefault(flow.triggers, <<>>) |->
                TriggerErrors(Get(flow.triggers)[t], "triggers[" \o ToString(t - 1) \o "]")])
    \o Flat([i \in DOMAIN flow.steps |-> StepRuleErrors(flow.steps, i)])
    \o Flat([i \in DOMAIN flow.steps |-> StepReferenceErrors(flow.steps, i)])
    \o validateObservability(EmptyAcc, flow.observability).errors

ReferenceCodes == {"INVALID_NEXT_STEP_REFERENCE", "INVALID_ERROR_STEP_REFERENCE"}

\* C30: for a structurally valid document the errors of the result are, in
\* this order, the metadata errors, the trigger errors by trigger index, for
\* each step in index order its duplicate-id error, step-config errors,
\* transport errors and policy errors by policy index, then the reference
\* errors by step index (next entries before error), then the observability
\* errors.
C30_ErrorOrder ==
    (Returned /\ StructurallyValid) =>
        CodesAndPaths(result.errors) = CodesAndPaths(ErrorsInOrder(TypedFlow))

\* a result in which a reference error of an earlier step comes after the
\* duplicate-id error of a later step and before an observability error
C30_Witness ==
    /\ Returned
    /\ StructurallyValid
    /\ \E a, b, c \in DOMAIN result.errors :
           /\ a < b /\ b < c
           /\ result.errors[a].code = "DUPLICATE_STEP_ID"
           /\ result.errors[b].code \in ReferenceCodes
           /\ \E i, j \in 1..Len(RawSteps) :
                  /\ i < j
                  /\ result.errors[a].path = "steps[" \o ToString(j - 1) \o "].id"
                  /\ \E k \in 0..MaxNext :
                         result.errors[b].path
                             = "steps[" \o ToString(i - 1) \o "].next[" \o ToString(k) \o "]"
           /\ result.errors[c].code = "OBSERVABILITY_PAYLOAD_SAMPLING_SIZE_INVALID"

=============================================================================
